---- MODULE Spec2Model ----
(***************************************************************************)
(* Model of the drone swarm simulator: the conflict engine                 *)
(* (core/collision_avoidance.py), the position lookup of the plot manager  *)
(* (gui/plot_manager.py) and the simulator that drives them                *)
(* (simulator/drone_simulator.py).                                         *)
(*                                                                         *)
(* Numbers.  Times are counted in tenths of a second (the engine's finest  *)
(* step, check_interval = 0.1 s), so 0.5 s is 5 and 3.0 s is 30.  Distances*)
(* are in metres.  Coordinates are exact rationals: a trajectory sample    *)
(* holds integers, an interpolated position holds numerators x, y, z over  *)
(* the common denominator den.  A distance is never rooted: d < s is       *)
(* decided as d^2 < s^2, which is the same comparison for d, s >= 0.       *)
(***************************************************************************)
EXTENDS Integers, Sequences, FiniteSets, TLC

VARIABLES
    drones,                \* self.drones: entries in dict insertion order
    safety_config,         \* the SafetyConfig shared by simulator and engine
    collision_warnings,    \* CollisionAvoidanceSystem.collision_warnings
    trajectory_conflicts,  \* CollisionAvoidanceSystem.trajectory_conflicts
    current_time,          \* self.current_time
    last_collision_check,  \* self.last_collision_check
    max_time,              \* self.max_time
    is_playing,            \* self.is_playing
    modified_missions,     \* self.modified_missions (ids, insertion order)
    origin,                \* self.coordinate_system: its origin, or None
    takeoff_config,        \* self.takeoff_config
    time_scale,            \* self.time_scale, in tenths
    animation,             \* self.animation is not None
    call                   \* the last call made and what it returned

vars == <<drones, safety_config, collision_warnings, trajectory_conflicts,
          current_time, last_collision_check, max_time, is_playing,
          modified_missions, origin, takeoff_config, time_scale, animation,
          call>>

engine_vars == <<safety_config, collision_warnings, trajectory_conflicts>>
sim_vars == <<current_time, last_collision_check, max_time, is_playing,
              modified_missions>>
mission_vars == <<origin, takeoff_config>>
playback_vars == <<time_scale, animation>>

-----------------------------------------------------------------------------
(* Program constants, in the units above.                                  *)

DEFAULT_SAFETY_DISTANCE == 5
DEFAULT_WARNING_DISTANCE == 8
DEFAULT_CRITICAL_DISTANCE == 3
DEFAULT_COLLISION_CHECK_INTERVAL == 1
SAFETY_DISTANCE_MIN == 2
SAFETY_DISTANCE_MAX == 15
TIME_STEP == 5
CHECK_INTERVAL == 1
SAFETY_BUFFER == 2
MIN_ESCAPE_WAIT == 30
COMPLETION_MARGIN == 50
MIN_COMPLETION_WAIT == 50
DEFAULT_TAKEOFF_ALTITUDE == 10
DEFAULT_HOVER_TIME == 3040
DEFAULT_TIME_SCALE == 10
TIME_SCALE_MIN == 1
TIME_SCALE_MAX == 50

\* Python's None.
None == [none |-> TRUE]

\* SafetyConfig(): the dataclass defaults.
SafetyConfig ==
    [safety_distance |-> DEFAULT_SAFETY_DISTANCE,
     warning_distance |-> DEFAULT_WARNING_DISTANCE,
     critical_distance |-> DEFAULT_CRITICAL_DISTANCE,
     collision_check_interval |-> DEFAULT_COLLISION_CHECK_INTERVAL]

\* TakeoffConfig(): the dataclass defaults read by the simulator.  Mission
\* times are counted in 1/1520 s (see the trajectory synthesizer).
TakeoffConfig ==
    [takeoff_altitude |-> DEFAULT_TAKEOFF_ALTITUDE,
     hover_time |-> DEFAULT_HOVER_TIME]

Max(a, b) == IF a >= b THEN a ELSE b
Min(a, b) == IF a <= b THEN a ELSE b
Abs(a) == IF a >= 0 THEN a ELSE -a
Sq(a) == a * a

-----------------------------------------------------------------------------
(* Agent identifiers.  An identifier "Drone_<digits>" is modelled by its   *)
(* digit string, a sequence of digits; the common prefix decides nothing.  *)
(* Python compares strings character by character, a proper prefix first.  *)

RECURSIVE StrLessFrom(_, _, _)
StrLessFrom(a, b, k) ==
    IF k > Len(a) THEN k <= Len(b)
    ELSE IF k > Len(b) THEN FALSE
    ELSE IF a[k] # b[k] THEN a[k] < b[k]
    ELSE StrLessFrom(a, b, k + 1)

StrLess(a, b) == StrLessFrom(a, b, 1)

\* Insert an identifier into a sorted sequence, keeping it sorted.
RECURSIVE InsertSorted(_, _)
InsertSorted(s, id) ==
    IF s = <<>> THEN <<id>>
    ELSE IF StrLess(id, Head(s)) THEN <<id>> \o s
    ELSE <<Head(s)>> \o InsertSorted(Tail(s), id)

RECURSIVE SortFrom(_, _, _)
SortFrom(keys, k, acc) ==
    IF k > Len(keys) THEN acc
    ELSE SortFrom(keys, k + 1, InsertSorted(acc, keys[k]))

\* sorted(d.keys())
Sorted(keys) == SortFrom(keys, 1, <<>>)

\* list(d.keys()) and d[key] of a dict kept as a sequence of entries.
Keys(data) == [k \in 1..Len(data) |-> data[k].id]
HasKey(data, id) == \E k \in 1..Len(data) : data[k].id = id
Lookup(data, id) == data[CHOOSE k \in 1..Len(data) : data[k].id = id]

-----------------------------------------------------------------------------
(* Positions.                                                              *)

Den(p) == IF "den" \in DOMAIN p THEN p.den ELSE 1

\* distance^2 between two positions, as numerator and denominator.
DistSqNum(p, q) ==
    Sq(p.x * Den(q) - q.x * Den(p)) + Sq(p.y * Den(q) - q.y * Den(p))
        + Sq(p.z * Den(q) - q.z * Den(p))
DistSqDen(p, q) == Sq(Den(p) * Den(q))

\* _calculate_distance_3d(pos1, pos2), kept as its exact square.
CalculateDistance3d(pos1, pos2) ==
    [sq_num |-> DistSqNum(pos1, pos2), sq_den |-> DistSqDen(pos1, pos2)]

\* distance < limit and distance > limit, for a limit >= 0 in metres.
DistanceBelow(distance, limit) == distance.sq_num < Sq(limit) * distance.sq_den
DistanceAbove(distance, limit) == distance.sq_num > Sq(limit) * distance.sq_den

\* The dict built by the linear interpolation between samples i and i + 1.
Lerp(trajectory, i, time) ==
    LET a == trajectory[i]
        b == trajectory[i + 1]
        d == b.time - a.time
        r == time - a.time
    IN [x |-> a.x * d + r * (b.x - a.x),
        y |-> a.y * d + r * (b.y - a.y),
        z |-> a.z * d + r * (b.z - a.z),
        den |-> d,
        time |-> time]

RECURSIVE InterpolateScan(_, _, _)
InterpolateScan(trajectory, time, i) ==
    IF i > Len(trajectory) - 1 THEN None
    ELSE IF trajectory[i].time <= time /\ time <= trajectory[i + 1].time
         THEN IF trajectory[i + 1].time - trajectory[i].time = 0
              THEN trajectory[i]
              ELSE Lerp(trajectory, i, time)
         ELSE InterpolateScan(trajectory, time, i + 1)

\* Mutant of InterpolatePosition: the end boundary tested with > for >=.
InterpolatePositionOpenEnd(trajectory, time) ==
    IF trajectory = <<>> THEN None
    ELSE IF time > trajectory[Len(trajectory)].time
         THEN trajectory[Len(trajectory)]
    ELSE IF time <= trajectory[1].time THEN trajectory[1]
    ELSE InterpolateScan(trajectory, time, 1)

\* Mutant of InterpolatePosition: an empty trajectory answered with a
\* position at the origin.
InterpolatePositionEmptyAtOrigin(trajectory, time) ==
    IF trajectory = <<>> THEN [x |-> 0, y |-> 0, z |-> 0, time |-> time]
    ELSE IF time >= trajectory[Len(trajectory)].time
         THEN trajectory[Len(trajectory)]
    ELSE IF time <= trajectory[1].time THEN trajectory[1]
    ELSE InterpolateScan(trajectory, time, 1)

\* CollisionAvoidanceSystem._interpolate_position
InterpolatePosition(trajectory, time) ==
    IF trajectory = <<>> THEN None
    ELSE IF time >= trajectory[Len(trajectory)].time
         THEN trajectory[Len(trajectory)]
    ELSE IF time <= trajectory[1].time THEN trajectory[1]
    ELSE InterpolateScan(trajectory, time, 1)

RECURSIVE PlotInterpolateScan(_, _, _)
PlotInterpolateScan(trajectory, time, i) ==
    IF i > Len(trajectory) - 1 THEN None
    ELSE IF trajectory[i].time <= time /\ time <= trajectory[i + 1].time
         THEN IF trajectory[i + 1].time - trajectory[i].time = 0
              THEN trajectory[i]
              ELSE Lerp(trajectory, i, time) @@
                   [phase |-> IF "phase" \in DOMAIN trajectory[i]
                              THEN trajectory[i].phase ELSE "auto"]
         ELSE PlotInterpolateScan(trajectory, time, i + 1)

\* Plot3DManager._interpolate_position
PlotInterpolatePosition(trajectory, time) ==
    IF trajectory = <<>> THEN None
    ELSE IF time >= trajectory[Len(trajectory)].time
         THEN trajectory[Len(trajectory)]
    ELSE IF time <= trajectory[1].time THEN trajectory[1]
    ELSE PlotInterpolateScan(trajectory, time, 1)

\* The loop of _find_nearest_waypoint_index; min_diff < 0 stands for inf.
RECURSIVE NearestScan(_, _, _, _, _)
NearestScan(trajectory, time, i, min_diff, nearest_idx) ==
    IF i > Len(trajectory) THEN nearest_idx
    ELSE LET point == trajectory[i]
             time_diff == Abs(point.time - time)
         IN IF "waypoint_index" \in DOMAIN point
               /\ (min_diff < 0 \/ time_diff < min_diff)
            THEN NearestScan(trajectory, time, i + 1, time_diff,
                             point.waypoint_index)
            ELSE NearestScan(trajectory, time, i + 1, min_diff, nearest_idx)

\* CollisionAvoidanceSystem._find_nearest_waypoint_index
FindNearestWaypointIndex(trajectory, time) ==
    IF trajectory = <<>> THEN 0 ELSE NearestScan(trajectory, time, 1, -1, 0)

-----------------------------------------------------------------------------
(* Offline analysis.                                                       *)

\* trajectory[-1]['time']
EndTime(trajectory) == trajectory[Len(trajectory)].time

\* 'critical' if distance < critical_distance else 'warning'
Severity(distance, cfg) ==
    IF DistanceBelow(distance, cfg.critical_distance)
    THEN "critical" ELSE "warning"

\* The conflict dict built at a sampled time t.
Conflict(drone1, traj1, drone2, traj2, t, pos1, pos2, distance, cfg) ==
    [time |-> t,
     distance |-> distance,
     drone1 |-> drone1,
     drone2 |-> drone2,
     position1 |-> pos1,
     position2 |-> pos2,
     waypoint1_index |-> FindNearestWaypointIndex(traj1, t),
     waypoint2_index |-> FindNearestWaypointIndex(traj2, t),
     severity |-> Severity(distance, cfg)]

\* The body of the sampling loop: for t in np.arange(0, max_time, time_step).
RECURSIVE ConflictScan(_, _, _, _, _, _, _)
ConflictScan(drone1, traj1, drone2, traj2, cfg, limit, t) ==
    IF t >= limit THEN <<>>
    ELSE LET pos1 == InterpolatePosition(traj1, t)
             pos2 == InterpolatePosition(traj2, t)
             distance == CalculateDistance3d(pos1, pos2)
             rest == ConflictScan(drone1, traj1, drone2, traj2, cfg, limit,
                                  t + TIME_STEP)
         IN IF pos1 # None /\ pos2 # None
               /\ DistanceBelow(distance, cfg.safety_distance)
            THEN <<Conflict(drone1, traj1, drone2, traj2, t, pos1, pos2,
                            distance, cfg)>> \o rest
            ELSE rest

\* CollisionAvoidanceSystem._find_trajectory_conflicts
FindTrajectoryConflicts(drone1, traj1, drone2, traj2, cfg) ==
    ConflictScan(drone1, traj1, drone2, traj2, cfg,
                 Max(EndTime(traj1), EndTime(traj2)), 0)

\* return max(wait_time, 3.0)
EscapeWait(wait_time) == Max(wait_time, MIN_ESCAPE_WAIT)

\* Mutants of CompletionWait: the final max(..., 5.0) left out; the 5.0 s
\* margin left out.
CompletionWaitNoFloor(end_time, conflict_time) ==
    end_time - conflict_time + COMPLETION_MARGIN
CompletionWaitNoMargin(end_time, conflict_time) ==
    Max(end_time - conflict_time, MIN_COMPLETION_WAIT)

\* completion_wait = traj1[-1]['time'] - conflict_time + 5.0;
\* return max(completion_wait, 5.0)
CompletionWait(end_time, conflict_time) ==
    Max(end_time - conflict_time + COMPLETION_MARGIN, MIN_COMPLETION_WAIT)

\* Mutant of Cleared: the safety buffer left out.
ClearedNoBuffer(pos1, conflict_pos2, cfg) ==
    DistanceAbove(CalculateDistance3d(pos1, conflict_pos2),
                  cfg.safety_distance)

\* distance > (self.config.safety_distance + safety_buffer)
Cleared(pos1, conflict_pos2, cfg) ==
    DistanceAbove(CalculateDistance3d(pos1, conflict_pos2),
                  cfg.safety_distance + SAFETY_BUFFER)

\* for t in np.arange(conflict_time, traj1[-1]['time'], check_interval)
RECURSIVE WaitScan(_, _, _, _)
WaitScan(traj1, conflict, cfg, t) ==
    IF t >= EndTime(traj1)
    THEN CompletionWait(EndTime(traj1), conflict.time)
    ELSE LET pos1 == InterpolatePosition(traj1, t)
         IN IF pos1 # None /\ Cleared(pos1, conflict.position2, cfg)
            THEN EscapeWait(t - conflict.time)
            ELSE WaitScan(traj1, conflict, cfg, t + CHECK_INTERVAL)

\* CollisionAvoidanceSystem._calculate_precise_wait_time
CalculatePreciseWaitTime(traj1, traj2, conflict, cfg) ==
    WaitScan(traj1, conflict, cfg, conflict.time)

\* The body of the pair loop of analyze_trajectory_conflicts.
PairConflicts(drones_data, drone1, drone2, cfg) ==
    LET trajectory1 == Lookup(drones_data, drone1).trajectory
        trajectory2 == Lookup(drones_data, drone2).trajectory
    IN IF trajectory1 = <<>> \/ trajectory2 = <<>> THEN <<>>
       ELSE LET conflict_points ==
                    FindTrajectoryConflicts(drone1, trajectory1,
                                            drone2, trajectory2, cfg)
            IN [k \in 1..Len(conflict_points) |->
                   conflict_points[k] @@
                   [wait_time |-> CalculatePreciseWaitTime(
                                      trajectory1, trajectory2,
                                      conflict_points[k], cfg),
                    priority_drone |-> drone1,
                    waiting_drone |-> drone2]]

\* for i in range(len(drone_ids)): for j in range(i + 1, len(drone_ids))
RECURSIVE AnalyzePairs(_, _, _, _, _)
AnalyzePairs(drones_data, drone_ids, cfg, i, j) ==
    IF i > Len(drone_ids) THEN <<>>
    ELSE IF j > Len(drone_ids)
         THEN AnalyzePairs(drones_data, drone_ids, cfg, i + 1, i + 2)
    ELSE PairConflicts(drones_data, drone_ids[i], drone_ids[j], cfg)
             \o AnalyzePairs(drones_data, drone_ids, cfg, i, j + 1)

\* Mutant of DroneIds: the keys taken in insertion order, unsorted.
DroneIdsUnsorted(drones_data) == Keys(drones_data)

\* drone_ids = sorted(drones_data.keys())
DroneIds(drones_data) == Sorted(Keys(drones_data))

\* CollisionAvoidanceSystem.analyze_trajectory_conflicts
AnalyzeTrajectoryConflicts(drones_data, cfg) ==
    AnalyzePairs(drones_data, DroneIds(drones_data), cfg, 1, 2)

-----------------------------------------------------------------------------
(* Real-time check.                                                        *)

\* ((pos1['x'] + pos2['x'])/2, (pos1['y'] + pos2['y'])/2, ...)
Midpoint(pos1, pos2) ==
    [x |-> pos1.x * Den(pos2) + pos2.x * Den(pos1),
     y |-> pos1.y * Den(pos2) + pos2.y * Den(pos1),
     z |-> pos1.z * Den(pos2) + pos2.z * Den(pos1),
     den |-> 2 * Den(pos1) * Den(pos2)]

\* The warning dict of check_collisions (now is its current_time).
Warning(drone1, drone2, pos1, pos2, distance, now, cfg) ==
    [drone1 |-> drone1,
     drone2 |-> drone2,
     distance |-> distance,
     time |-> now,
     position |-> Midpoint(pos1, pos2),
     severity |-> Severity(distance, cfg)]

\* The body of the pair loop of check_collisions.
PairWarning(positions, drone1, drone2, now, cfg) ==
    LET pos1 == Lookup(positions, drone1).pos
        pos2 == Lookup(positions, drone2).pos
        distance == CalculateDistance3d(pos1, pos2)
    IN IF pos1 # None /\ pos2 # None
          /\ DistanceBelow(distance, cfg.safety_distance)
       THEN <<Warning(drone1, drone2, pos1, pos2, distance, now,
                      cfg)>>
       ELSE <<>>

RECURSIVE CheckPairs(_, _, _, _, _, _)
CheckPairs(positions, drone_ids, now, cfg, i, j) ==
    IF i > Len(drone_ids) THEN <<>>
    ELSE IF j > Len(drone_ids)
         THEN CheckPairs(positions, drone_ids, now, cfg, i + 1, i + 2)
    ELSE PairWarning(positions, drone_ids[i], drone_ids[j], now, cfg)
             \o CheckPairs(positions, drone_ids, now, cfg, i, j + 1)

\* Mutant of ClearedWarnings: the list is not cleared.
KeptWarnings(warnings) == warnings

\* self.collision_warnings.clear()
ClearedWarnings(warnings) == <<>>

\* Mutant of NewLoiters: a hold of 3.0 s for the second agent of each warning.
NewLoitersForWaiting(positions, warnings) ==
    [k \in 1..Len(warnings) |->
        [id |-> warnings[k].drone2, duration |-> MIN_ESCAPE_WAIT]]

\* new_loiters = {}: nothing is ever put into it.
NewLoiters(positions, warnings) == <<>>

\* CollisionAvoidanceSystem.check_collisions: the warning list it leaves in
\* self.collision_warnings (and returns) and the loiter commands it returns.
CheckCollisions(positions, now, cfg, warnings) ==
    LET found == ClearedWarnings(warnings)
                 \o CheckPairs(positions, Sorted(Keys(positions)),
                               now, cfg, 1, 2)
    IN [collision_warnings |-> found,
        new_loiters |-> NewLoiters(positions, found)]

-----------------------------------------------------------------------------
(* Position lookup of the simulator.                                       *)

\* The loop over loiter_delays: the first delay with time >= start_time
\* decides, by the break.
RECURSIVE EffectiveTimeScan(_, _, _)
EffectiveTimeScan(loiter_delays, time, k) ==
    IF k > Len(loiter_delays) THEN time
    ELSE IF time >= loiter_delays[k].start_time
         THEN Max(loiter_delays[k].start_time,
                  time - loiter_delays[k].duration)
         ELSE EffectiveTimeScan(loiter_delays, time, k + 1)

\* Mutant of EffectiveTime: without the break, the last matching delay wins.
RECURSIVE EffectiveTimeNoBreak(_, _, _, _)
EffectiveTimeNoBreak(loiter_delays, time, k, effective_time) ==
    IF k > Len(loiter_delays) THEN effective_time
    ELSE IF time >= loiter_delays[k].start_time
         THEN EffectiveTimeNoBreak(loiter_delays, time, k + 1,
                                   Max(loiter_delays[k].start_time,
                                       time - loiter_delays[k].duration))
         ELSE EffectiveTimeNoBreak(loiter_delays, time, k + 1, effective_time)

EffectiveTimeLastMatch(loiter_delays, time) ==
    EffectiveTimeNoBreak(loiter_delays, time, 1, time)

\* effective_time after the loop over loiter_delays
EffectiveTime(loiter_delays, time) == EffectiveTimeScan(loiter_delays, time, 1)

\* AdvancedDroneSimulator._get_drone_position_at_time
GetDronePositionAtTime(drones_data, drone_id, time) ==
    IF ~HasKey(drones_data, drone_id) THEN None
    ELSE LET drone == Lookup(drones_data, drone_id)
         IN IF drone.trajectory = <<>> THEN None
            ELSE InterpolatePosition(
                     drone.trajectory,
                     EffectiveTime(drone.loiter_delays, time))

\* current_pos.get('phase', FlightPhase.AUTO) of _update_status_display
PhaseOf(position) ==
    IF "phase" \in DOMAIN position THEN position.phase ELSE "auto"

\* AdvancedDroneSimulator._get_current_positions: a dict in the order of
\* self.drones, without the agents that have no position.
RECURSIVE CurrentPositionsFrom(_, _, _)
CurrentPositionsFrom(drones_data, time, k) ==
    IF k > Len(drones_data) THEN <<>>
    ELSE LET position == GetDronePositionAtTime(drones_data,
                                                drones_data[k].id, time)
             rest == CurrentPositionsFrom(drones_data, time, k + 1)
         IN IF drones_data[k].trajectory # <<>> /\ position # None
            THEN <<[id |-> drones_data[k].id, pos |-> position]>> \o rest
            ELSE rest

GetCurrentPositions(drones_data, time) ==
    CurrentPositionsFrom(drones_data, time, 1)

-----------------------------------------------------------------------------
(* Inputs.  A trajectory is any list of samples with non-decreasing times; *)
(* the families below are all such lists, up to a length, over a few       *)
(* positions and times.                                                    *)

MaxLen == 2

\* A sample as the synthesizer writes it; index is its waypoint_index.
Sample(x, y, z, t, index) ==
    [x |-> x, y |-> y, z |-> z, time |-> t, phase |-> "auto",
     waypoint_index |-> index]

NonDecreasing(ts) == \A k \in 1..(Len(ts) - 1) : ts[k] <= ts[k + 1]

\* Every list of 1..n samples at positions ps and non-decreasing times in ts.
Paths(ps, ts, n) ==
    UNION {{[k \in 1..len |->
                Sample(p[k][1], p[k][2], p[k][3], t[k], k - 1)] :
            p \in [1..len -> ps],
            t \in {u \in [1..len -> ts] : NonDecreasing(u)}} :
           len \in 1..n}

\* The agent with right of way: along the x axis.
PriorityPaths == Paths({<<0, 0, 0>>, <<8, 0, 0>>}, {0, 10, 40}, MaxLen)

\* The agent that waits: beside the axis, at a lateral distance of sqrt(5).
WaitingPaths == Paths({<<0, 2, 1>>, <<2, 2, 1>>}, {0, 60}, MaxLen)

\* Three agents standing apart or together, one possibly without samples.
StandingPaths ==
    {<<>>, <<Sample(0, 0, 0, 10, 0)>>, <<Sample(0, 4, 0, 20, 0)>>}

Drone(id, trajectory) ==
    [id |-> id, trajectory |-> trajectory, loiter_delays |-> <<>>]

\* "Drone_1", "Drone_10", "Drone_2": string order is not numeric order.
Drone_1 == <<1>>
Drone_10 == <<1, 0>>
Drone_2 == <<2>>

Permutations3 == {p \in [1..3 -> 1..3] : \A a, b \in 1..3 : a # b => p[a] # p[b]}

\* The slow pass: 8 m along the axis in 4 s.
SlowPass == <<Sample(0, 0, 0, 0, 0), Sample(8, 0, 0, 40, 1)>>

\* Two agents, given in an order that is not the sorted one: every path of
\* one against the other standing still, and the slow pass or a standing
\* priority agent against every path of the waiting one.
PairScenarios ==
    {<<Drone(Drone_2, b), Drone(Drone_10, a)>> :
        a \in PriorityPaths, b \in Paths({<<0, 2, 1>>, <<2, 2, 1>>}, {0, 60}, 1)}
    \cup
    {<<Drone(Drone_2, b), Drone(Drone_10, a)>> :
        a \in Paths({<<0, 0, 0>>, <<8, 0, 0>>}, {0, 10, 40}, 1) \cup {SlowPass},
        b \in WaitingPaths}

TripleScenarios ==
    {[k \in 1..3 |-> <<Drone(Drone_1, a), Drone(Drone_10, b),
                       Drone(Drone_2, c)>>[p[k]]] :
        a \in StandingPaths, b \in StandingPaths, c \in StandingPaths,
        p \in Permutations3}

EngineScenarios == PairScenarios \cup TripleScenarios

\* The safety distances the slider is moved to.
SafetyInputs == {2, 3, 5}

ReachableConfigs ==
    {[SafetyConfig EXCEPT !.safety_distance = v] : v \in SafetyInputs}

\* The times at which the real-time check is asked.
CheckTimes == {0, 3, 45}

-----------------------------------------------------------------------------
(* The conflict engine on its own: any population, any safety distance.    *)

EngineInit ==
    /\ drones \in EngineScenarios
    /\ safety_config \in ReachableConfigs
    /\ collision_warnings = <<>>
    /\ trajectory_conflicts = <<>>
    /\ current_time = 0
    /\ last_collision_check = 0
    /\ max_time = 0
    /\ is_playing = FALSE
    /\ modified_missions = <<>>
    /\ origin = None
    /\ takeoff_config = TakeoffConfig
    /\ time_scale = DEFAULT_TIME_SCALE
    /\ animation = FALSE
    /\ call = [op |-> "none"]

\* analyze_trajectory_conflicts(drones_data)
EngineAnalyze ==
    /\ trajectory_conflicts' = AnalyzeTrajectoryConflicts(drones, safety_config)
    /\ UNCHANGED mission_vars
    /\ UNCHANGED playback_vars
    /\ call' = [op |-> "analyze_trajectory_conflicts"]
    /\ UNCHANGED <<drones, safety_config, collision_warnings, sim_vars>>

\* check_collisions(positions, current_time) on the snapshot taken at t
EngineCheck(t) ==
    LET positions == GetCurrentPositions(drones, t)
        got == CheckCollisions(positions, t, safety_config, collision_warnings)
    IN /\ collision_warnings' = got.collision_warnings
       /\ UNCHANGED mission_vars
       /\ UNCHANGED playback_vars
       /\ call' = [op |-> "check_collisions", positions |-> positions,
                   time |-> t, new_loiters |-> got.new_loiters,
                   had |-> Len(collision_warnings)]
       /\ UNCHANGED <<drones, safety_config, trajectory_conflicts, sim_vars>>

\* clear_warnings()
EngineClearWarnings ==
    /\ collision_warnings' = <<>>
    /\ UNCHANGED mission_vars
    /\ UNCHANGED playback_vars
    /\ call' = [op |-> "clear_warnings"]
    /\ UNCHANGED <<drones, safety_config, trajectory_conflicts, sim_vars>>

\* The times at which a position is asked of the engine directly.
InterpolateTimes == {3}

\* _interpolate_position(trajectory, t) on the trajectory of the k-th agent
EngineInterpolate(k, t) ==
    /\ call' = [op |-> "_interpolate_position", drone |-> k, time |-> t,
                result |-> InterpolatePosition(drones[k].trajectory, t)]
    /\ UNCHANGED mission_vars
    /\ UNCHANGED playback_vars
    /\ UNCHANGED <<drones, engine_vars, sim_vars>>

EngineNext ==
    \/ EngineAnalyze
    \/ \E t \in CheckTimes : EngineCheck(t)
    \/ EngineClearWarnings
    \/ \E k \in 1..Len(drones), t \in InterpolateTimes :
           EngineInterpolate(k, t)

SpecEngine == EngineInit /\ [][EngineNext]_vars

-----------------------------------------------------------------------------
(* The position lookups on their own: one agent, any trajectory, any list  *)
(* of loiter delays, any query time.                                       *)

MaxDelays == 2
MaxQueryTime == 45

\* Every list of up to n delays over a few start times and durations.
DelayLists(n) ==
    UNION {[1..len -> [start_time : {0, 10, 30}, duration : {5, 20}]] :
           len \in 0..n}

\* A trajectory with the four phases: on the ground until 2.0 s, a climb
\* to 10 m until 3.0 s, the hover until 3.5 s, 8 m of flight until 4.5 s.
PhasedPath ==
    <<[Sample(0, 0, 0, 0, 0) EXCEPT !.phase = "taxi"],
      [Sample(0, 0, 0, 20, 0) EXCEPT !.phase = "takeoff"],
      [Sample(0, 0, 10, 30, 1) EXCEPT !.phase = "takeoff"],
      [Sample(0, 0, 10, 35, 1) EXCEPT !.phase = "hover"],
      Sample(8, 0, 10, 45, 2)>>

PositionScenarios ==
    {<<Drone(Drone_1, a)>> :
        a \in Paths({<<0, 0, 0>>, <<8, 0, 0>>}, {5, 10, 20}, MaxLen)
                \cup {PhasedPath}}
    \cup
    {<<[Drone(Drone_1, SlowPass) EXCEPT !.loiter_delays = d]>> :
        d \in DelayLists(MaxDelays)}

QueryTimes == 0..MaxQueryTime

PositionInit ==
    /\ drones \in PositionScenarios
    /\ safety_config = SafetyConfig
    /\ collision_warnings = <<>>
    /\ trajectory_conflicts = <<>>
    /\ current_time = 0
    /\ last_collision_check = 0
    /\ max_time = 0
    /\ is_playing = FALSE
    /\ modified_missions = <<>>
    /\ origin = None
    /\ takeoff_config = TakeoffConfig
    /\ time_scale = DEFAULT_TIME_SCALE
    /\ animation = FALSE
    /\ call = [op |-> "none"]

\* collision_system._interpolate_position(trajectory, t)
PositionInterpolate(t) ==
    /\ UNCHANGED mission_vars
    /\ UNCHANGED playback_vars
    /\ call' = [op |-> "_interpolate_position", time |-> t,
                result |-> InterpolatePosition(drones[1].trajectory, t)]
    /\ UNCHANGED <<drones, engine_vars, sim_vars>>

\* plot_manager._interpolate_position(trajectory, t)
PositionPlotInterpolate(t) ==
    /\ UNCHANGED mission_vars
    /\ UNCHANGED playback_vars
    /\ call' = [op |-> "plot_interpolate_position", time |-> t,
                result |-> PlotInterpolatePosition(drones[1].trajectory, t)]
    /\ UNCHANGED <<drones, engine_vars, sim_vars>>

\* _get_drone_position_at_time(drone_id, t)
PositionGetDronePosition(t) ==
    /\ UNCHANGED mission_vars
    /\ UNCHANGED playback_vars
    /\ call' = [op |-> "_get_drone_position_at_time", time |-> t,
                result |-> GetDronePositionAtTime(drones, drones[1].id, t)]
    /\ UNCHANGED <<drones, engine_vars, sim_vars>>

PositionNext ==
    \/ \E t \in QueryTimes : PositionInterpolate(t)
    \/ \E t \in QueryTimes : PositionPlotInterpolate(t)
    \/ \E t \in QueryTimes : PositionGetDronePosition(t)

SpecPosition == PositionInit /\ [][PositionNext]_vars

-----------------------------------------------------------------------------
(* The simulator.  A mission load installs a batch of agents; the files'   *)
(* contents are an input, drawn from a few batches of two agents whose     *)
(* trajectories start at time 0.                                           *)

\* d[key] = value of a dict kept as a sequence of entries.
Put(data, entry) ==
    IF HasKey(data, entry.id)
    THEN [k \in 1..Len(data) |->
             IF data[k].id = entry.id THEN entry ELSE data[k]]
    ELSE Append(data, entry)

\* self.drones[drone_id]['loiter_delays'].append(...) for each new loiter.
RECURSIVE ApplyLoiters(_, _, _, _)
ApplyLoiters(drones_data, new_loiters, now, k) ==
    IF k > Len(new_loiters) THEN drones_data
    ELSE LET id == new_loiters[k].id
             delay == [start_time |-> now, duration |-> new_loiters[k].duration]
             applied ==
                 IF HasKey(drones_data, id)
                 THEN [n \in 1..Len(drones_data) |->
                          IF drones_data[n].id = id
                          THEN [drones_data[n] EXCEPT
                                   !.loiter_delays = Append(@, delay)]
                          ELSE drones_data[n]]
                 ELSE drones_data
         IN ApplyLoiters(applied, new_loiters, now, k + 1)

\* AdvancedDroneSimulator._generate_modified_missions
RECURSIVE GenerateModifiedMissions(_, _, _, _)
GenerateModifiedMissions(drones_data, loiter_commands, missions, k) ==
    IF k > Len(loiter_commands) THEN missions
    ELSE GenerateModifiedMissions(
             drones_data, loiter_commands,
             IF HasKey(drones_data, loiter_commands[k].id)
             THEN Put(missions, [id |-> loiter_commands[k].id,
                                 loiter |-> loiter_commands[k].duration])
             ELSE missions,
             k + 1)

\* The simulator hands its SafetyConfig object to the engine at construction
\* and the engine keeps the reference (self.config = safety_config); the
\* simulator never calls update_safety_config.  What the engine reads is
\* therefore the simulator's object as it is now.
EngineConfigCopied(cfg) == SafetyConfig
EngineConfig(cfg) == cfg

\* AdvancedDroneSimulator._update_3d_plot: what one tick leaves in the
\* simulator and the engine, and the warning list it hands to the renderer.
UpdatePlot(drones_data, cfg, now, last_check, warnings, missions) ==
    LET current_positions == GetCurrentPositions(drones_data, now)
    IN IF now - last_check >= cfg.collision_check_interval
       THEN LET got == CheckCollisions(current_positions, now,
                                        EngineConfig(cfg), warnings)
                delayed == ApplyLoiters(drones_data, got.new_loiters, now, 1)
            IN [drones |-> delayed,
                collision_warnings |-> got.collision_warnings,
                last_collision_check |-> now,
                modified_missions |->
                    IF got.collision_warnings # <<>> /\ missions = <<>>
                    THEN GenerateModifiedMissions(delayed, got.new_loiters,
                                                  missions, 1)
                    ELSE missions,
                checked |-> TRUE,
                positions |-> current_positions,
                new_loiters |-> got.new_loiters,
                shown |-> got.collision_warnings]
       ELSE [drones |-> drones_data,
             collision_warnings |-> warnings,
             last_collision_check |-> last_check,
             modified_missions |-> missions,
             checked |-> FALSE,
             positions |-> current_positions,
             new_loiters |-> <<>>,
             shown |-> <<>>]

\* The record of a handler that ran a tick, and of one that ran none.
Ticked(op, tick) ==
    [op |-> op, checked |-> tick.checked, positions |-> tick.positions,
     new_loiters |-> tick.new_loiters, shown |-> tick.shown]
NoTick(op) ==
    [op |-> op, checked |-> FALSE, positions |-> <<>>, new_loiters |-> <<>>,
     shown |-> <<>>]

RECURSIVE MaxTimeFrom(_, _, _)
MaxTimeFrom(drones_data, k, acc) ==
    IF k > Len(drones_data) THEN acc
    ELSE LET trajectory == drones_data[k].trajectory
             delays == drones_data[k].loiter_delays
             total_loiter ==
                 LET Sum[n \in 0..Len(delays)] ==
                         IF n = 0 THEN 0 ELSE Sum[n - 1] + delays[n].duration
                 IN Sum[Len(delays)]
         IN MaxTimeFrom(drones_data, k + 1,
                        IF trajectory # <<>>
                        THEN Max(acc, EndTime(trajectory) + total_loiter)
                        ELSE acc)

\* The end time of the last agent alone, without the max over the agents.
CalculateMaxTimeLast(drones_data) ==
    IF drones_data = <<>> \/ drones_data[Len(drones_data)].trajectory = <<>>
    THEN 0
    ELSE EndTime(drones_data[Len(drones_data)].trajectory)

\* AdvancedDroneSimulator._calculate_max_time
CalculateMaxTime(drones_data) == MaxTimeFrom(drones_data, 1, 0)

\* The entry a load stores for an agent: with the waypoints of its file,
\* here the places of the samples of its trajectory.
Loaded(drone) ==
    drone @@ [waypoints |-> [k \in 1..Len(drone.trajectory) |->
                                [x |-> drone.trajectory[k].x,
                                 y |-> drone.trajectory[k].y,
                                 alt |-> drone.trajectory[k].z]]]

\* self.modified_missions.clear(); KeptMissions leaves the dict as it is.
KeptMissions(missions) == missions
ClearedMissions(missions) == <<>>

\* 8 m along the axis in 1 s.
ShortPass == <<Sample(0, 0, 0, 0, 0), Sample(8, 0, 0, 10, 1)>>

\* The batches a load installs: two agents, the second standing beside the
\* start of the first, which stands too or flies 8 m in 1 s or in 0.5 s; an
\* empty batch is a load in which no file could be read.  One batch has
\* three agents, stored in an order that is not the sorted one.
MissionBatches ==
    {<<Loaded(Drone(Drone_1, a)),
       Loaded(Drone(Drone_2, <<Sample(0, 2, 1, 0, 0)>>))>> :
        a \in {<<Sample(0, 0, 0, 0, 0)>>,
               <<Sample(0, 0, 0, 0, 0), Sample(8, 0, 0, 10, 1)>>,
               <<Sample(0, 0, 0, 0, 0), Sample(8, 0, 0, 5, 1)>>}}
    \cup {<<Loaded(Drone(Drone_2, <<Sample(0, 0, 4, 0, 0)>>)),
             Loaded(Drone(Drone_10, <<Sample(0, 2, 1, 0, 0),
                                     Sample(0, 2, 1, 10, 1)>>)),
             Loaded(Drone(Drone_1, ShortPass))>>}
    \cup {<<>>}

\* The real time between two animation frames, and the stops of the time
\* and speed sliders.
FrameSteps == {5}
SliderTimes == {0, 10}
SpeedInputs == {v \in {10, 20} : TIME_SCALE_MIN <= v /\ v <= TIME_SCALE_MAX}

Init ==
    /\ drones = <<>>
    /\ safety_config = SafetyConfig
    /\ collision_warnings = <<>>
    /\ trajectory_conflicts = <<>>
    /\ current_time = 0
    /\ last_collision_check = 0
    /\ max_time = 0
    /\ is_playing = FALSE
    /\ modified_missions = <<>>
    /\ origin = None
    /\ takeoff_config = TakeoffConfig
    /\ time_scale = DEFAULT_TIME_SCALE
    /\ animation = FALSE
    /\ call = NoTick("__init__")

\* _load_mission_files(file_paths, file_type)
LoadMissionFiles(batch) ==
    IF batch # <<>>
    THEN LET tick == UpdatePlot(batch, safety_config, current_time,
                                last_collision_check, collision_warnings,
                                ClearedMissions(modified_missions))
         IN /\ drones' = tick.drones
            /\ max_time' = CalculateMaxTime(batch)
            /\ collision_warnings' = tick.collision_warnings
            /\ last_collision_check' = tick.last_collision_check
            /\ modified_missions' = tick.modified_missions
            /\ UNCHANGED mission_vars
            /\ UNCHANGED playback_vars
            /\ call' = Ticked("_load_mission_files", tick)
            /\ UNCHANGED <<safety_config, trajectory_conflicts, current_time,
                           is_playing>>
    ELSE /\ drones' = <<>>
         /\ modified_missions' = ClearedMissions(modified_missions)
         /\ UNCHANGED mission_vars
         /\ UNCHANGED playback_vars
         /\ call' = NoTick("_load_mission_files")
         /\ UNCHANGED <<engine_vars, current_time, last_collision_check,
                        max_time, is_playing>>

\* _start_animation and _stop_animation: whether self.animation is set
\* afterwards.  StopAnimationKept leaves the animation as it is.
StartAnimation(active) == TRUE
StopAnimationKept(active) == active
StopAnimation(active) == FALSE

\* What toggle_play leaves in is_playing and animation.
Toggled(playing, active) ==
    [is_playing |-> ~playing,
     animation |-> IF ~playing THEN StartAnimation(active)
                   ELSE StopAnimation(active)]

\* toggle_play()
TogglePlay ==
    /\ is_playing' = Toggled(is_playing, animation).is_playing
    /\ animation' = Toggled(is_playing, animation).animation
    /\ UNCHANGED <<mission_vars, time_scale>>
    /\ call' = [was_playing |-> is_playing] @@ NoTick("toggle_play")
    /\ UNCHANGED <<drones, engine_vars, current_time, last_collision_check,
                   max_time, modified_missions>>

\* stop_simulation()
StopSimulation ==
    /\ is_playing' = FALSE
    /\ animation' = StopAnimation(animation)
    /\ UNCHANGED <<mission_vars, time_scale>>
    /\ call' = NoTick("stop_simulation")
    /\ UNCHANGED <<drones, engine_vars, current_time, last_collision_check,
                   max_time, modified_missions>>

\* reset_simulation()
ResetSimulation ==
    LET cleared == [k \in 1..Len(drones) |->
                       [drones[k] EXCEPT !.loiter_delays = <<>>]]
        tick == UpdatePlot(cleared, safety_config, 0, 0, collision_warnings,
                           ClearedMissions(modified_missions))
    IN /\ is_playing' = FALSE
       /\ current_time' = 0
       /\ drones' = tick.drones
       /\ collision_warnings' = tick.collision_warnings
       /\ last_collision_check' = tick.last_collision_check
       /\ modified_missions' = tick.modified_missions
       /\ animation' = StopAnimation(animation)
       /\ UNCHANGED <<mission_vars, time_scale>>
       /\ call' = [was_playing |-> is_playing, time |-> current_time,
                    missions |-> Len(modified_missions)]
                      @@ Ticked("reset_simulation", tick)
       /\ UNCHANGED <<safety_config, trajectory_conflicts, max_time>>

\* dt = (current_real_time - self.last_update_time) * self.time_scale
FrameAdvance(elapsed, scale) == (elapsed * scale) \div 10

\* update_frame(frame) of _start_animation, called by the active animation
\* when elapsed tenths of a second of real time have passed since the frame
\* before.  The frame that passes max_time calls toggle_play.
UpdateFrame(elapsed) ==
    LET dt == FrameAdvance(elapsed, time_scale) IN
    /\ animation
    /\ is_playing
    /\ max_time # 0
    /\ IF current_time + dt > max_time
       THEN /\ current_time' = max_time
            /\ is_playing' = Toggled(is_playing, animation).is_playing
            /\ animation' = Toggled(is_playing, animation).animation
            /\ UNCHANGED <<mission_vars, time_scale>>
            /\ call' = [elapsed |-> elapsed] @@ NoTick("update_frame")
            /\ UNCHANGED <<drones, engine_vars, last_collision_check,
                           max_time, modified_missions>>
       ELSE LET tick == UpdatePlot(drones, safety_config, current_time + dt,
                                   last_collision_check, collision_warnings,
                                   modified_missions)
            IN /\ current_time' = current_time + dt
               /\ drones' = tick.drones
               /\ collision_warnings' = tick.collision_warnings
               /\ last_collision_check' = tick.last_collision_check
               /\ modified_missions' = tick.modified_missions
               /\ UNCHANGED mission_vars
               /\ UNCHANGED playback_vars
               /\ call' = [elapsed |-> elapsed]
                              @@ Ticked("update_frame", tick)
               /\ UNCHANGED <<safety_config, trajectory_conflicts, max_time,
                              is_playing>>

\* on_time_change(), the slider at new_time
OnTimeChange(new_time) ==
    /\ ~is_playing
    /\ new_time <= max_time
    /\ LET tick == UpdatePlot(drones, safety_config, new_time,
                              last_collision_check, collision_warnings,
                              modified_missions)
       IN /\ current_time' = new_time
          /\ drones' = tick.drones
          /\ collision_warnings' = tick.collision_warnings
          /\ last_collision_check' = tick.last_collision_check
          /\ modified_missions' = tick.modified_missions
          /\ UNCHANGED mission_vars
          /\ UNCHANGED playback_vars
          /\ call' = Ticked("on_time_change", tick)
          /\ UNCHANGED <<safety_config, trajectory_conflicts, max_time,
                         is_playing>>

\* on_speed_change(), the slider at new_speed
OnSpeedChange(new_speed) ==
    /\ time_scale' = new_speed
    /\ call' = NoTick("on_speed_change")
    /\ UNCHANGED <<drones, engine_vars, sim_vars, mission_vars, animation>>

\* on_safety_change(), the slider at new_safety
OnSafetyChange(new_safety) ==
    LET changed == [safety_config EXCEPT !.safety_distance = new_safety]
        tick == UpdatePlot(drones, changed, current_time,
                           last_collision_check, collision_warnings,
                           modified_missions)
    IN /\ safety_config' = changed
       /\ IF ~is_playing
          THEN /\ drones' = tick.drones
               /\ collision_warnings' = tick.collision_warnings
               /\ last_collision_check' = tick.last_collision_check
               /\ modified_missions' = tick.modified_missions
               /\ UNCHANGED mission_vars
               /\ UNCHANGED playback_vars
               /\ call' = [value |-> new_safety]
                              @@ Ticked("on_safety_change", tick)
          ELSE /\ UNCHANGED <<mission_vars, playback_vars>>
               /\ call' = [value |-> new_safety]
                              @@ NoTick("on_safety_change")
               /\ UNCHANGED <<drones, collision_warnings,
                              last_collision_check, modified_missions>>
       /\ UNCHANGED <<trajectory_conflicts, current_time, max_time, is_playing>>

\* The loop of analyze_collisions without its test: every conflict replaces
\* the modified mission of its waiting agent.
RECURSIVE MissionsForConflictsReplacing(_, _, _)
MissionsForConflictsReplacing(conflicts, missions, k) ==
    IF k > Len(conflicts) THEN missions
    ELSE MissionsForConflictsReplacing(
             conflicts,
             Put(missions, [id |-> conflicts[k].waiting_drone,
                            conflicts |-> <<conflicts[k]>>]),
             k + 1)

\* The loop of analyze_collisions over the conflicts: a modified mission for
\* each waiting agent that has none yet.
RECURSIVE MissionsForConflicts(_, _, _)
MissionsForConflicts(conflicts, missions, k) ==
    IF k > Len(conflicts) THEN missions
    ELSE MissionsForConflicts(
             conflicts,
             IF ~HasKey(missions, conflicts[k].waiting_drone)
             THEN Put(missions, [id |-> conflicts[k].waiting_drone,
                                 conflicts |-> <<conflicts[k]>>])
             ELSE missions,
             k + 1)

\* analyze_collisions()
AnalyzeCollisions ==
    /\ drones # <<>>
    /\ LET conflicts == AnalyzeTrajectoryConflicts(
                            drones, EngineConfig(safety_config))
       IN /\ trajectory_conflicts' = conflicts
          /\ modified_missions' =
                 MissionsForConflicts(conflicts, modified_missions, 1)
    /\ UNCHANGED mission_vars
    /\ UNCHANGED playback_vars
    /\ call' = [before |-> Len(modified_missions)]
                   @@ NoTick("analyze_collisions")
    /\ UNCHANGED <<drones, safety_config, collision_warnings, current_time,
                   last_collision_check, max_time, is_playing>>

\* clear_warnings()
ClearWarnings ==
    /\ collision_warnings' = <<>>
    /\ UNCHANGED mission_vars
    /\ UNCHANGED playback_vars
    /\ call' = NoTick("clear_warnings")
    /\ UNCHANGED <<drones, safety_config, trajectory_conflicts, sim_vars>>

Next ==
    \/ \E batch \in MissionBatches : LoadMissionFiles(batch)
    \/ TogglePlay
    \/ StopSimulation
    \/ ResetSimulation
    \/ \E elapsed \in FrameSteps : UpdateFrame(elapsed)
    \/ \E new_speed \in SpeedInputs : OnSpeedChange(new_speed)
    \/ \E new_time \in SliderTimes : OnTimeChange(new_time)
    \/ \E new_safety \in SafetyInputs : OnSafetyChange(new_safety)
    \/ AnalyzeCollisions
    \/ ClearWarnings

Spec == Init /\ [][Next]_vars

-----------------------------------------------------------------------------
(* Properties of the offline analysis, stated on the conflict list right   *)
(* after analyze_trajectory_conflicts has returned it.                     *)

Analysed == call.op = "analyze_trajectory_conflicts"

ConflictIndices == 1..Len(trajectory_conflicts)

MinOf(S) == CHOOSE m \in S : \A n \in S : m <= n

\* The 3D distance between p and q is strictly greater (smaller) than limit.
FartherThan(p, q, limit) ==
    DistSqNum(p, q) > limit * limit * DistSqDen(p, q)
CloserThan(p, q, limit) ==
    DistSqNum(p, q) < limit * limit * DistSqDen(p, q)

PriorityTrajectory(c) == Lookup(drones, c.priority_drone).trajectory
WaitingTrajectory(c) == Lookup(drones, c.waiting_drone).trajectory

\* The scanned times t0, t0 + 0.1, ... before the end of the priority
\* trajectory at which the priority agent is clear of the fixed position P2.
EscapeTimes(c) ==
    {t \in c.time..(EndTime(PriorityTrajectory(c)) - 1) :
        FartherThan(InterpolatePosition(PriorityTrajectory(c), t),
                    c.position2, safety_config.safety_distance + 2)}

\* C1: every conflict of the analysis has wait_time >= 3.0 s; one produced
\* by the mission-completion branch (the priority agent never clears) has
\* wait_time >= 5.0 s, also when the conflict lies after the priority
\* agent's last sample.
C1_WaitTimeFloors ==
    Analysed =>
        \A k \in ConflictIndices :
            LET c == trajectory_conflicts[k]
            IN /\ c.wait_time >= 30
               /\ EscapeTimes(c) = {} => c.wait_time >= 50

\* C1 witness: a conflict more than 2.0 s after the priority agent's last
\* sample, where end - t0 + 5.0 is below 3.0.
C1_Witness ==
    /\ Analysed
    /\ \E k \in ConflictIndices :
           /\ trajectory_conflicts[k].time
                  > EndTime(PriorityTrajectory(trajectory_conflicts[k])) + 20
           /\ trajectory_conflicts[k].wait_time = 50

\* C2: P2 is the waiting agent's position at the conflict time t0, and when
\* t' is the first scanned time at which the priority agent is farther than
\* safety_distance + 2.0 from P2, wait_time = max(t' - t0, 3.0).
C2_EscapeWait ==
    Analysed =>
        \A k \in ConflictIndices :
            LET c == trajectory_conflicts[k]
            IN /\ c.position2 = InterpolatePosition(WaitingTrajectory(c), c.time)
               /\ EscapeTimes(c) # {} =>
                      c.wait_time = Max(MinOf(EscapeTimes(c)) - c.time, 30)

\* C2 witness: one conflict is cleared after more than 3.0 s, another of the
\* same analysis within 3.0 s (so the floor applies).
C2_Witness ==
    /\ Analysed
    /\ \E k \in ConflictIndices :
           LET c == trajectory_conflicts[k]
           IN EscapeTimes(c) # {} /\ MinOf(EscapeTimes(c)) - c.time > 30
    /\ \E k \in ConflictIndices :
           LET c == trajectory_conflicts[k]
           IN EscapeTimes(c) # {} /\ MinOf(EscapeTimes(c)) - c.time < 30

\* C3: when the priority agent is at no scanned time farther than
\* safety_distance + 2.0 from P2, wait_time = max(end - t0 + 5.0, 5.0); for
\* a conflict at or after the priority agent's end that is exactly 5.0 s.
C3_CompletionWait ==
    Analysed =>
        \A k \in ConflictIndices :
            LET c == trajectory_conflicts[k]
                end == EndTime(PriorityTrajectory(c))
            IN EscapeTimes(c) = {} =>
                   /\ c.wait_time = Max(end - c.time + 50, 50)
                   /\ c.time >= end => c.wait_time = 50

\* C3 witness: a conflict before the priority agent's end that it never
\* clears, and one at or after its end.
C3_Witness ==
    /\ Analysed
    /\ \E k \in ConflictIndices :
           LET c == trajectory_conflicts[k]
           IN /\ EscapeTimes(c) = {}
              /\ c.time < EndTime(PriorityTrajectory(c))
              /\ c.wait_time > 50
    /\ \E k \in ConflictIndices :
           LET c == trajectory_conflicts[k]
           IN c.time >= EndTime(PriorityTrajectory(c)) /\ c.wait_time = 50

\* The identifiers of the population and the one that sorts first.
DroneIdSet == {drones[k].id : k \in 1..Len(drones)}
FirstId == CHOOSE a \in DroneIdSet : \A b \in DroneIdSet \ {a} : StrLess(a, b)

C6_Exhaustive ==
    Analysed =>
        \A i, j \in 1..Len(drones) :
            LET a == drones[i]
                b == drones[j]
            IN (/\ i < j
                /\ a.trajectory # <<>>
                /\ b.trajectory # <<>>
                /\ \E t \in 0..(Max(EndTime(a.trajectory),
                                    EndTime(b.trajectory)) - 1) :
                       CloserThan(InterpolatePosition(a.trajectory, t),
                                  InterpolatePosition(b.trajectory, t),
                                  safety_config.safety_distance))
               => \E k \in ConflictIndices :
                      {trajectory_conflicts[k].drone1,
                       trajectory_conflicts[k].drone2} = {a.id, b.id}

-----------------------------------------------------------------------------
(* Properties of the real-time check, stated right after check_collisions  *)
(* has returned; call holds the snapshot and time it was given.            *)

Checked == call.op = "check_collisions"

SnapshotIds == {call.positions[k].id : k \in 1..Len(call.positions)}
SnapshotPos(id) == Lookup(call.positions, id).pos

\* The unordered pairs of the snapshot closer than safety_distance, each
\* written with the identifier that sorts first in front.
ClosePairs ==
    {pr \in SnapshotIds \X SnapshotIds :
        /\ StrLess(pr[1], pr[2])
        /\ CloserThan(SnapshotPos(pr[1]), SnapshotPos(pr[2]),
                      safety_config.safety_distance)}

\* m is the coordinate-wise midpoint of p and q.
IsMidpoint(m, p, q) ==
    /\ 2 * m.x * Den(p) * Den(q) = (p.x * Den(q) + q.x * Den(p)) * Den(m)
    /\ 2 * m.y * Den(p) * Den(q) = (p.y * Den(q) + q.y * Den(p)) * Den(m)
    /\ 2 * m.z * Den(p) * Den(q) = (p.z * Den(q) + q.z * Den(p)) * Den(m)

WarningsOf(pr) ==
    {k \in 1..Len(collision_warnings) :
        {collision_warnings[k].drone1, collision_warnings[k].drone2}
            = {pr[1], pr[2]}}

\* C10: after check_collisions the warning list holds exactly one warning
\* for each unordered pair of the latest snapshot closer than
\* safety_distance, at the pair's midpoint and stamped with the latest
\* current_time, and nothing else (nothing of an earlier call).
C10_WarningsAreLatest ==
    Checked =>
        /\ \A pr \in ClosePairs : Cardinality(WarningsOf(pr)) = 1
        /\ \A k \in 1..Len(collision_warnings) :
               LET w == collision_warnings[k]
               IN /\ \E pr \in ClosePairs :
                         /\ {w.drone1, w.drone2} = {pr[1], pr[2]}
                         /\ IsMidpoint(w.position, SnapshotPos(pr[1]),
                                       SnapshotPos(pr[2]))
                  /\ w.time = call.time

\* C10 witness: a check that found warnings when the list already held
\* warnings of an earlier call, one of its pairs at an interpolated position.
C10_Witness ==
    /\ Checked
    /\ call.had > 0
    /\ collision_warnings # <<>>
    /\ \E k \in 1..Len(collision_warnings) : collision_warnings[k].position.den > 2

-----------------------------------------------------------------------------
(* Properties of the position lookups, stated on what the last call        *)
(* returned.                                                               *)

Interpolated ==
    call.op \in {"_interpolate_position", "plot_interpolate_position"}

FirstSample == drones[1].trajectory[1]
LastSample == drones[1].trajectory[Len(drones[1].trajectory)]

\* C7, as claimed: on a non-empty trajectory with non-decreasing times, a
\* query at or before the first sample's time returns the first sample
\* itself, and a query at or after the last sample's time returns the last
\* sample itself.
C7_BoundaryAsClaimed ==
    Interpolated =>
        /\ call.time <= FirstSample.time => call.result = FirstSample
        /\ call.time >= LastSample.time => call.result = LastSample

\* C7, amended: a query at or after the last sample's time returns the last
\* sample itself; a query at or before the first sample's time, and before
\* the last sample's time, returns the first sample itself.
C7_Boundary ==
    Interpolated =>
        /\ call.time >= LastSample.time => call.result = LastSample
        /\ (call.time <= FirstSample.time /\ call.time < LastSample.time)
               => call.result = FirstSample

\* C7 witness: a query at the last sample's time of a trajectory whose
\* samples are at different times, answered with the last sample.
C7_Witness ==
    /\ Interpolated
    /\ FirstSample.time < LastSample.time
    /\ call.time = LastSample.time
    /\ call.result = LastSample

\* The delays of the list, in list order, with start_time <= t.
MatchingDelays(t) ==
    {k \in 1..Len(drones[1].loiter_delays) :
        drones[1].loiter_delays[k].start_time <= t}

\* The effective time of a query at t, by the first matching delay.
ClaimedEffectiveTime(t) ==
    IF MatchingDelays(t) = {} THEN t
    ELSE LET delay == drones[1].loiter_delays[MinOf(MatchingDelays(t))]
         IN IF delay.start_time >= t - delay.duration
            THEN delay.start_time ELSE t - delay.duration

\* C8: _get_drone_position_at_time(agent, t) interpolates the trajectory at
\* max(start_time, t - duration) of the first delay in list order with
\* start_time <= t, whatever the later delays are, and at t when no delay
\* matches.
C8_FirstMatchingDelay ==
    call.op = "_get_drone_position_at_time" =>
        call.result = InterpolatePosition(drones[1].trajectory,
                                          ClaimedEffectiveTime(call.time))

\* C8 witness: two delays match the query time and the second one would
\* give another position.
C8_Witness ==
    /\ call.op = "_get_drone_position_at_time"
    /\ Cardinality(MatchingDelays(call.time)) >= 2
    /\ \E k \in MatchingDelays(call.time) :
           LET delay == drones[1].loiter_delays[k]
           IN call.result # InterpolatePosition(
                                drones[1].trajectory,
                                Max(delay.start_time,
                                    call.time - delay.duration))

-----------------------------------------------------------------------------
(* Properties of the simulator.  call.checked says that the handler that   *)
(* ran last made the real-time check; call.positions is its snapshot.      *)

TickIds == {call.positions[k].id : k \in 1..Len(call.positions)}
TickPos(id) == Lookup(call.positions, id).pos

\* The warnings of the last check for the pair a, b with a given severity.
LiveWarnings(a, b, severity) ==
    {k \in 1..Len(collision_warnings) :
        /\ {collision_warnings[k].drone1, collision_warnings[k].drone2} = {a, b}
        /\ collision_warnings[k].severity = severity}

\* The conflicts of the last analysis for the pair a, b at time t with a
\* given severity.
ConflictsAt(a, b, t, severity) ==
    {k \in ConflictIndices :
        /\ {trajectory_conflicts[k].drone1, trajectory_conflicts[k].drone2}
               = {a, b}
        /\ trajectory_conflicts[k].time = t
        /\ trajectory_conflicts[k].severity = severity}

\* The times the offline analysis samples for two trajectories.
SampledTimes(traj1, traj2) ==
    {t \in 0..(Max(EndTime(traj1), EndTime(traj2)) - 1) : t % 5 = 0}

\* C4, as claimed: in the real-time check and in the offline analysis, under
\* every safety configuration the simulator reaches, a pair at distance d is
\* classified critical iff d < critical_distance, otherwise warning iff
\* d < safety_distance, otherwise nothing is emitted.
C4_SeverityThresholds ==
    /\ call.checked =>
           \A a, b \in TickIds :
               StrLess(a, b) =>
                   LET critical == CloserThan(TickPos(a), TickPos(b),
                                              safety_config.critical_distance)
                       unsafe == CloserThan(TickPos(a), TickPos(b),
                                            safety_config.safety_distance)
                   IN /\ critical <=> LiveWarnings(a, b, "critical") # {}
                      /\ ~critical =>
                             (unsafe <=> LiveWarnings(a, b, "warning") # {})
    /\ call.op = "analyze_collisions" =>
           \A i, j \in 1..Len(drones) :
               (/\ StrLess(drones[i].id, drones[j].id)
                /\ drones[i].trajectory # <<>>
                /\ drones[j].trajectory # <<>>) =>
                   \A t \in SampledTimes(drones[i].trajectory,
                                         drones[j].trajectory) :
                       LET p == InterpolatePosition(drones[i].trajectory, t)
                           q == InterpolatePosition(drones[j].trajectory, t)
                           critical ==
                               CloserThan(p, q, safety_config.critical_distance)
                           unsafe ==
                               CloserThan(p, q, safety_config.safety_distance)
                       IN /\ critical <=>
                                 ConflictsAt(drones[i].id, drones[j].id, t,
                                             "critical") # {}
                          /\ ~critical =>
                                 (unsafe <=>
                                      ConflictsAt(drones[i].id, drones[j].id,
                                                  t, "warning") # {})

LoiterDelays(drones_data) ==
    [k \in 1..Len(drones_data) |-> drones_data[k].loiter_delays]

\* C9: the real-time check returns an empty loiter-command map, and a tick
\* leaves every agent's loiter_delays list as it was: unchanged in a frame,
\* a slider seek and a safety change, empty after a load and a reset.
C9_TickKeepsLoiterDelays ==
    /\ [](call.checked => call.new_loiters = <<>>)
    /\ [][/\ call'.op \in {"update_frame", "on_time_change",
                           "on_safety_change"}
              => LoiterDelays(drones') = LoiterDelays(drones)
          /\ call'.op \in {"_load_mission_files", "reset_simulation"}
              => \A k \in 1..Len(drones') : drones'[k].loiter_delays = <<>>
         ]_vars

\* C9 witness: an animation frame whose check raised a warning.
C9_Witness ==
    /\ call.op = "update_frame"
    /\ call.checked
    /\ collision_warnings # <<>>
    /\ \A k \in 1..Len(drones) : drones[k].loiter_delays = <<>>

\* The warnings in ws for the pair a, b.
WarningsFor(ws, a, b) ==
    {k \in 1..Len(ws) : {ws[k].drone1, ws[k].drone2} = {a, b}}

C13_ConfigOrdered ==
    /\ safety_config.safety_distance > 0
    /\ safety_config.warning_distance > 0
    /\ safety_config.critical_distance > 0
    /\ safety_config.collision_check_interval > 0
    /\ safety_config.critical_distance < safety_config.safety_distance
    /\ safety_config.safety_distance <= safety_config.warning_distance

\* C12: on_safety_change(v) leaves safety_distance = v in the configuration
\* (and nothing else writes it), and every later real-time check and offline
\* analysis compares distances against the safety_distance the simulator
\* holds: the engine's configuration is the simulator's.
C12_SafetyChangeSeen ==
    /\ [](call.op = "on_safety_change" =>
              safety_config = [SafetyConfig EXCEPT
                                  !.safety_distance = call.value])
    /\ [][safety_config' # safety_config => call'.op = "on_safety_change"]_vars
    /\ [](call.checked =>
              \A a, b \in TickIds :
                  StrLess(a, b) =>
                      (CloserThan(TickPos(a), TickPos(b),
                                  safety_config.safety_distance)
                           <=> WarningsFor(collision_warnings, a, b) # {}))
    /\ [](call.op = "analyze_collisions" =>
              \A i, j \in 1..Len(drones) :
                  (/\ StrLess(drones[i].id, drones[j].id)
                   /\ drones[i].trajectory # <<>>
                   /\ drones[j].trajectory # <<>>) =>
                      \A t \in SampledTimes(drones[i].trajectory,
                                            drones[j].trajectory) :
                          CloserThan(
                              InterpolatePosition(drones[i].trajectory, t),
                              InterpolatePosition(drones[j].trajectory, t),
                              safety_config.safety_distance)
                          <=> \E k \in ConflictIndices :
                                  /\ trajectory_conflicts[k].time = t
                                  /\ trajectory_conflicts[k].drone1
                                         = drones[i].id
                                  /\ trajectory_conflicts[k].drone2
                                         = drones[j].id)

\* C12 witness: an animation frame after the safety distance was lowered,
\* whose check raises no warning for a pair that is closer than the default
\* safety distance.
C12_Witness ==
    /\ call.op = "update_frame"
    /\ call.checked
    /\ safety_config.safety_distance < DEFAULT_SAFETY_DISTANCE
    /\ collision_warnings = <<>>
    /\ \E a, b \in TickIds :
           /\ StrLess(a, b)
           /\ CloserThan(TickPos(a), TickPos(b), DEFAULT_SAFETY_DISTANCE)

-----------------------------------------------------------------------------
(* Mission loading: the coordinate system, the trajectory synthesizer and  *)
(* the agent table they fill.                                              *)
(*                                                                         *)
(* Numbers.  Latitudes and longitudes are counted in 1/111111 degree, so   *)
(* one unit of latitude is METERS_PER_DEGREE_LAT / 111111 = 1 m north.     *)
(* Mission times are counted in 1/1520 s, the grid on which the 20 takeoff *)
(* samples of np.linspace(2.0, 7.0, 20) and a flight of a whole number of  *)
(* metres at 8 m/s fall exactly.  The floats of the code are fixed-point   *)
(* here: a projected coordinate is rounded down to the metre, a distance   *)
(* to the centimetre, a time to the grid.  The samples' lat, lon are kept; *)
(* their alt, which repeats z or the waypoint's altitude and is read       *)
(* nowhere, is left out.                                                   *)

TAKEOFF_TIME == 3040
CLIMB_DURATION == 7600
TAKEOFF_SAMPLES == 20
DEFAULT_CRUISE_SPEED == 8
INTERPOLATION_DISTANCE == 10
MAX_DRONES == 4
TEST_BASE_LAT == 24
TEST_BASE_LON == 121
TEST_MISSION_SIDE == 80
TEST_MISSION_ALT == 15

\* n seconds and n degrees in the units above.
Seconds(n) == n * 1520
Degrees(n) == n * 111111

\* cos(radians(lat)) in ten-thousandths.  Every latitude of the model lies
\* within 1 km of 24 N, where the cosine is 0.9135 to four places.
CosTenThousandths(lat) == 9135

\* EarthCoordinateSystem.set_origin
SetOrigin(lat, lon) ==
    [origin_lat |-> lat, origin_lon |-> lon,
     meters_per_degree_lon |-> CosTenThousandths(lat)]

\* EarthCoordinateSystem.lat_lon_to_meters: <<x, y>>
LatLonToMeters(org, lat, lon) ==
    IF org = None THEN <<0, 0>>
    ELSE <<((lon - org.origin_lon) * org.meters_per_degree_lon) \div 10000,
           lat - org.origin_lat>>

\* A conversion without the test for an unset origin, which reads the
\* origin as 0, 0 on the equator.
MetersToLatLonUnguarded(org, x, y) ==
    IF org = None THEN <<y, x>>
    ELSE <<org.origin_lat + y,
           org.origin_lon + (x * 10000) \div org.meters_per_degree_lon>>

\* EarthCoordinateSystem.meters_to_lat_lon: <<lat, lon>>
MetersToLatLon(org, x, y) ==
    IF org = None THEN <<0, 0>>
    ELSE <<org.origin_lat + y,
           org.origin_lon + (x * 10000) \div org.meters_per_degree_lon>>

\* The largest r with r * r <= n, for lo * lo <= n < hi * hi.
RECURSIVE SqrtBetween(_, _, _)
SqrtBetween(n, lo, hi) ==
    IF hi - lo <= 1 THEN lo
    ELSE LET mid == (lo + hi) \div 2
         IN IF mid * mid <= n THEN SqrtBetween(n, mid, hi)
            ELSE SqrtBetween(n, lo, mid)

\* math.sqrt(dx**2 + dy**2 + dz**2), in centimetres.
Distance(dx, dy, dz) ==
    SqrtBetween(10000 * (dx * dx + dy * dy + dz * dz), 0, 46340)

\* The TAXI sample.
TaxiSample(home, home_wp) ==
    [x |-> home[1], y |-> home[2], z |-> 0, time |-> 0, phase |-> "taxi",
     lat |-> home_wp.lat, lon |-> home_wp.lon, waypoint_index |-> 0]

\* Takeoff samples of which the last is tagged as the hover.
TakeoffSamplesEndHover(home, home_wp, cfg) ==
    [n \in 1..TAKEOFF_SAMPLES |->
        LET i == n - 1
            steps == TAKEOFF_SAMPLES - 1
        IN [x |-> home[1] * steps, y |-> home[2] * steps,
            z |-> i * cfg.takeoff_altitude, den |-> steps,
            time |-> TAKEOFF_TIME + (i * CLIMB_DURATION) \div steps,
            phase |-> IF n = TAKEOFF_SAMPLES THEN "hover" ELSE "takeoff",
            lat |-> home_wp.lat, lon |-> home_wp.lon,
            waypoint_index |-> IF i < 10 THEN 0 ELSE 1]]

\* The TAKEOFF samples: np.linspace(2.0, 7.0, 20), altitude i/19 of the
\* takeoff altitude (numerators over den = 19).
TakeoffSamples(home, home_wp, cfg) ==
    [n \in 1..TAKEOFF_SAMPLES |->
        LET i == n - 1
            steps == TAKEOFF_SAMPLES - 1
        IN [x |-> home[1] * steps, y |-> home[2] * steps,
            z |-> i * cfg.takeoff_altitude, den |-> steps,
            time |-> TAKEOFF_TIME + (i * CLIMB_DURATION) \div steps,
            phase |-> "takeoff",
            lat |-> home_wp.lat, lon |-> home_wp.lon,
            waypoint_index |-> IF i < 10 THEN 0 ELSE 1]]

\* A HOVER sample placed at the end of the climb, whatever hover_time is.
HoverSampleAtClimbEnd(home, home_wp, cfg) ==
    [x |-> home[1], y |-> home[2], z |-> cfg.takeoff_altitude,
     time |-> TAKEOFF_TIME + CLIMB_DURATION,
     phase |-> "hover",
     lat |-> home_wp.lat, lon |-> home_wp.lon, waypoint_index |-> 1]

\* The HOVER sample.
HoverSample(home, home_wp, cfg) ==
    [x |-> home[1], y |-> home[2], z |-> cfg.takeoff_altitude,
     time |-> TAKEOFF_TIME + CLIMB_DURATION + cfg.hover_time,
     phase |-> "hover",
     lat |-> home_wp.lat, lon |-> home_wp.lon, waypoint_index |-> 1]

\* Segment samples whose interpolated times are counted from the end of the
\* segment instead of its start.
SegmentSamplesLate(prev, x, y, z, wp, wp_idx, distance, flight_time, total_time) ==
    LET num_segments == Max(2, distance \div (100 * INTERPOLATION_DISTANCE))
        interpolated ==
            IF distance > 100 * INTERPOLATION_DISTANCE
            THEN [seg \in 1..(num_segments - 1) |->
                     [x |-> prev[1] * num_segments + seg * (x - prev[1]),
                      y |-> prev[2] * num_segments + seg * (y - prev[2]),
                      z |-> prev[3] * num_segments + seg * (z - prev[3]),
                      den |-> num_segments,
                      time |-> total_time
                                   + (flight_time * seg) \div num_segments,
                      phase |-> "auto",
                      lat |-> wp.lat, lon |-> wp.lon,
                      waypoint_index |-> wp_idx - 1]]
            ELSE <<>>
    IN Append(interpolated,
              [x |-> x, y |-> y, z |-> z, time |-> total_time,
               phase |-> "auto", lat |-> wp.lat, lon |-> wp.lon,
               waypoint_index |-> wp_idx])

\* The samples of one AUTO segment that ends at time total_time: the
\* interpolated ones when the segment is longer than 10 m, then the waypoint.
SegmentSamples(prev, x, y, z, wp, wp_idx, distance, flight_time, total_time) ==
    LET num_segments == Max(2, distance \div (100 * INTERPOLATION_DISTANCE))
        interpolated ==
            IF distance > 100 * INTERPOLATION_DISTANCE
            THEN [seg \in 1..(num_segments - 1) |->
                     [x |-> prev[1] * num_segments + seg * (x - prev[1]),
                      y |-> prev[2] * num_segments + seg * (y - prev[2]),
                      z |-> prev[3] * num_segments + seg * (z - prev[3]),
                      den |-> num_segments,
                      time |-> total_time - flight_time
                                   + (flight_time * seg) \div num_segments,
                      phase |-> "auto",
                      lat |-> wp.lat, lon |-> wp.lon,
                      waypoint_index |-> wp_idx - 1]]
            ELSE <<>>
    IN Append(interpolated,
              [x |-> x, y |-> y, z |-> z, time |-> total_time,
               phase |-> "auto", lat |-> wp.lat, lon |-> wp.lon,
               waypoint_index |-> wp_idx])

\* The AUTO loop: enumerate(waypoints[1:], start=2).  waypoints[k] here is
\* waypoints[k - 1] there, so the loop's wp_idx is k.
RECURSIVE AutoSamples(_, _, _, _, _, _)
AutoSamples(waypoints, org, k, prev, total_time, trajectory) ==
    IF k > Len(waypoints) THEN trajectory
    ELSE LET wp == waypoints[k]
             xy == LatLonToMeters(org, wp.lat, wp.lon)
             z == wp.alt
             distance == Distance(xy[1] - prev[1], xy[2] - prev[2],
                                  z - prev[3])
             flight_time ==
                 (distance * Seconds(1)) \div (100 * DEFAULT_CRUISE_SPEED)
         IN AutoSamples(waypoints, org, k + 1, <<xy[1], xy[2], z>>,
                        total_time + flight_time,
                        trajectory \o
                            SegmentSamples(prev, xy[1], xy[2], z, wp, k,
                                           distance, flight_time,
                                           total_time + flight_time))

\* A synthesizer whose timing depends on the agent it is called for.
CalculateTrajectoryPerDrone(waypoints, drone_id, org, cfg) ==
    IF Len(waypoints) < 2 THEN <<>>
    ELSE LET home == LatLonToMeters(org, waypoints[1].lat, waypoints[1].lon)
             late == [cfg EXCEPT !.hover_time = @ + Seconds(drone_id[1])]
         IN AutoSamples(waypoints, org, 2,
                        <<home[1], home[2], cfg.takeoff_altitude>>,
                        HoverSample(home, waypoints[1], late).time,
                        <<TaxiSample(home, waypoints[1])>>
                            \o TakeoffSamples(home, waypoints[1], cfg)
                            \o <<HoverSample(home, waypoints[1], late)>>)

\* AdvancedDroneSimulator._calculate_realistic_trajectory(waypoints,
\* drone_id), with the coordinate system and the takeoff configuration it
\* reads from the simulator.
CalculateRealisticTrajectory(waypoints, drone_id, org, cfg) ==
    IF Len(waypoints) < 2 THEN <<>>
    ELSE LET home == LatLonToMeters(org, waypoints[1].lat, waypoints[1].lon)
         IN AutoSamples(waypoints, org, 2,
                        <<home[1], home[2], cfg.takeoff_altitude>>,
                        HoverSample(home, waypoints[1], cfg).time,
                        <<TaxiSample(home, waypoints[1])>>
                            \o TakeoffSamples(home, waypoints[1], cfg)
                            \o <<HoverSample(home, waypoints[1], cfg)>>)

\* An entry of self.drones as a load creates it (of its fields, those the
\* core reads).
MissionDrone(id, waypoints, trajectory) ==
    [id |-> id, waypoints |-> waypoints, trajectory |-> trajectory,
     loiter_delays |-> <<>>]

\* self.drones.clear()
KeptDrones(drones_data) == drones_data
ClearedDrones(drones_data) == <<>>

\* The loop of _load_mission_files over the files.  files[i] here is
\* file_paths[i - 1] there; a file is what FileParserFactory makes of it:
\* an exception (ok = FALSE) or a list of waypoints, which may be empty.
RECURSIVE LoadLoop(_, _, _, _, _, _)
LoadLoop(files, i, org, table, loaded_count, cfg) ==
    IF i > Len(files) \/ i > MAX_DRONES
    THEN [origin |-> org, drones |-> table, loaded_count |-> loaded_count]
    ELSE IF ~files[i].ok \/ files[i].waypoints = <<>>
    THEN LoadLoop(files, i + 1, org, table, loaded_count, cfg)
    ELSE LET waypoints == files[i].waypoints
             set == IF i = 1
                    THEN SetOrigin(waypoints[1].lat, waypoints[1].lon)
                    ELSE org
             trajectory ==
                 CalculateRealisticTrajectory(waypoints, <<i>>, set, cfg)
         IN LoadLoop(files, i + 1, set,
                     Put(table, MissionDrone(<<i>>, waypoints, trajectory)),
                     loaded_count + 1, cfg)

\* The offsets of the four test regions, and the waypoints of
\* _generate_test_waypoints for the agent drone_index (0..3).
RegionOffsets == <<<<-100, -50>>, <<100, -50>>, <<-100, 50>>, <<100, 50>>>>

GenerateTestWaypoints(drone_index, takeoff, base_lat, base_lon, org) ==
    LET offset == RegionOffsets[drone_index + 1]
        base == LatLonToMeters(org, base_lat, base_lon)
        x0 == base[1] + offset[1]
        y0 == base[2] + offset[2]
        mission_points ==
            <<<<x0, y0>>, <<x0 + TEST_MISSION_SIDE, y0>>,
              <<x0 + TEST_MISSION_SIDE, y0 + TEST_MISSION_SIDE>>,
              <<x0, y0 + TEST_MISSION_SIDE>>, <<x0, y0>>>>
    IN <<[lat |-> takeoff[1], lon |-> takeoff[2], alt |-> 0, cmd |-> 179]>>
       \o [n \in 1..Len(mission_points) |->
              LET geo == MetersToLatLon(org, mission_points[n][1],
                                        mission_points[n][2])
              IN [lat |-> geo[1], lon |-> geo[2], alt |-> TEST_MISSION_ALT,
                  cmd |-> 16]]

\* The loop of create_test_mission over the four agents.
RECURSIVE TestLoop(_, _, _, _, _)
TestLoop(takeoff_positions, i, org, table, cfg) ==
    IF i > MAX_DRONES THEN table
    ELSE LET waypoints ==
                 GenerateTestWaypoints(i - 1, takeoff_positions[i],
                                       Degrees(TEST_BASE_LAT),
                                       Degrees(TEST_BASE_LON), org)
             trajectory ==
                 CalculateRealisticTrajectory(waypoints, <<i>>, org, cfg)
         IN TestLoop(takeoff_positions, i + 1, org,
                     Put(table, MissionDrone(<<i>>, waypoints, trajectory)),
                     cfg)

\* The inputs.  Waypoints lie around 24 N 121 E: north metres and east units
\* from there.
MaxFiles == 2

Waypoint(north, east, alt, cmd) ==
    [lat |-> Degrees(TEST_BASE_LAT) + north,
     lon |-> Degrees(TEST_BASE_LON) + east, alt |-> alt, cmd |-> cmd]

\* A 30 m leg north (two interpolated samples), then 10 m east (none).
MissionA ==
    <<Waypoint(0, 0, 0, 179), Waypoint(30, 0, 10, 16),
      Waypoint(30, 11, 10, 16)>>
\* A first waypoint above home at the takeoff altitude of the default
\* configuration (a segment of length 0), then 13 m (one interpolated sample).
MissionB ==
    <<Waypoint(6, 22, 0, 179), Waypoint(6, 22, 10, 16),
      Waypoint(18, 22, 15, 16)>>
\* A home waypoint alone.
MissionHome == <<Waypoint(3, 0, 0, 179)>>

\* A file that cannot be read, and one that holds no valid waypoint.
Unreadable == [ok |-> FALSE, waypoints |-> <<>>]
NoWaypoints == [ok |-> TRUE, waypoints |-> <<>>]
MissionFile(waypoints) == [ok |-> TRUE, waypoints |-> waypoints]

\* The batches of a load: up to MaxFiles files, each unreadable or one of
\* the two missions, and the batches that begin with a file of no waypoint
\* or of the home waypoint alone.
FileBatches ==
    UNION {[1..n -> {Unreadable, MissionFile(MissionA),
                     MissionFile(MissionB)}] : n \in 1..MaxFiles}
    \cup {<<first>> \o rest :
              first \in {NoWaypoints, MissionFile(MissionHome)},
              rest \in {<<>>, <<MissionFile(MissionA)>>}}

\* What generate_takeoff_formation returns is an input: four takeoff
\* positions 6 m apart, 50 m east of the base or at the base.
TestFormations ==
    {[n \in 1..4 |->
         <<Degrees(TEST_BASE_LAT) + 6 * ((n - 1) \div 2),
           Degrees(TEST_BASE_LON) + east + 7 * ((n - 1) % 2)>>] :
        east \in {0, 55}}

TakeoffConfigs ==
    {TakeoffConfig,
     [TakeoffConfig EXCEPT !.hover_time = 0],
     [takeoff_altitude |-> 12, hover_time |-> Seconds(1)]}

GeodeticInputs ==
    {<<Degrees(TEST_BASE_LAT) + north, Degrees(TEST_BASE_LON) + east>> :
        north \in {0, 6, -3}, east \in {0, 22}}
MetricInputs == {<<x, y>> : x \in {0, 20, -7}, y \in {-5, 0, 6}}

MissionInit ==
    /\ drones = <<>>
    /\ safety_config = SafetyConfig
    /\ collision_warnings = <<>>
    /\ trajectory_conflicts = <<>>
    /\ current_time = 0
    /\ last_collision_check = 0
    /\ max_time = 0
    /\ is_playing = FALSE
    /\ modified_missions = <<>>
    /\ origin = None
    /\ takeoff_config \in TakeoffConfigs
    /\ time_scale = DEFAULT_TIME_SCALE
    /\ animation = FALSE
    /\ call = NoTick("__init__")

\* _load_mission_files(file_paths, file_type), the files given by what
\* their parsing returns.
LoadMission(files) ==
    LET loaded == LoadLoop(files, 1, origin, ClearedDrones(drones), 0,
                           takeoff_config)
        tick == UpdatePlot(loaded.drones, safety_config, current_time,
                           last_collision_check, collision_warnings,
                           ClearedMissions(modified_missions))
    IN /\ origin' = loaded.origin
       /\ IF loaded.loaded_count > 0
          THEN /\ drones' = tick.drones
               /\ max_time' = CalculateMaxTime(loaded.drones)
               /\ collision_warnings' = tick.collision_warnings
               /\ last_collision_check' = tick.last_collision_check
               /\ modified_missions' = tick.modified_missions
               /\ call' = [files |-> files, before |-> Len(drones)]
                              @@ Ticked("_load_mission_files", tick)
          ELSE /\ drones' = loaded.drones
               /\ modified_missions' = ClearedMissions(modified_missions)
               /\ call' = [files |-> files, before |-> Len(drones)]
                              @@ NoTick("_load_mission_files")
               /\ UNCHANGED <<collision_warnings, last_collision_check,
                              max_time>>
       /\ UNCHANGED <<safety_config, trajectory_conflicts, current_time,
                      is_playing, takeoff_config, playback_vars>>

\* create_test_mission()
CreateTestMission(takeoff_positions) ==
    LET org == SetOrigin(Degrees(TEST_BASE_LAT), Degrees(TEST_BASE_LON))
        table == TestLoop(takeoff_positions, 1, org, ClearedDrones(drones),
                          takeoff_config)
        tick == UpdatePlot(table, safety_config, current_time,
                           last_collision_check, collision_warnings,
                           ClearedMissions(modified_missions))
    IN /\ origin' = org
       /\ drones' = tick.drones
       /\ max_time' = CalculateMaxTime(table)
       /\ collision_warnings' = tick.collision_warnings
       /\ last_collision_check' = tick.last_collision_check
       /\ modified_missions' = tick.modified_missions
       /\ call' = [takeoff_positions |-> takeoff_positions,
                    before |-> Len(drones)]
                      @@ Ticked("create_test_mission", tick)
       /\ UNCHANGED <<safety_config, trajectory_conflicts, current_time,
                      is_playing, takeoff_config, playback_vars>>

MissionNext ==
    \/ \E files \in FileBatches : LoadMission(files)
    \/ \E takeoff_positions \in TestFormations :
           CreateTestMission(takeoff_positions)
    \/ ResetSimulation

SpecMission == MissionInit /\ [][MissionNext]_vars

-----------------------------------------------------------------------------
(* The coordinate system on its own, from its construction.                *)

CoordinateInit ==
    /\ drones = <<>>
    /\ safety_config = SafetyConfig
    /\ collision_warnings = <<>>
    /\ trajectory_conflicts = <<>>
    /\ current_time = 0
    /\ last_collision_check = 0
    /\ max_time = 0
    /\ is_playing = FALSE
    /\ modified_missions = <<>>
    /\ origin = None
    /\ takeoff_config = TakeoffConfig
    /\ time_scale = DEFAULT_TIME_SCALE
    /\ animation = FALSE
    /\ call = [op |-> "__init__", set |-> FALSE]

\* coordinate_system.set_origin(lat, lon)
CallSetOrigin(geo) ==
    /\ origin' = SetOrigin(geo[1], geo[2])
    /\ call' = [op |-> "set_origin", args |-> geo, set |-> TRUE]
    /\ UNCHANGED <<drones, engine_vars, sim_vars, takeoff_config,
                   playback_vars>>

\* coordinate_system.lat_lon_to_meters(lat, lon); set tells whether
\* set_origin was called before.
CallLatLonToMeters(geo) ==
    /\ call' = [op |-> "lat_lon_to_meters", args |-> geo,
                result |-> LatLonToMeters(origin, geo[1], geo[2]),
                set |-> call.set]
    /\ UNCHANGED <<drones, engine_vars, sim_vars, mission_vars,
                   playback_vars>>

\* coordinate_system.meters_to_lat_lon(x, y)
CallMetersToLatLon(xy) ==
    /\ call' = [op |-> "meters_to_lat_lon", args |-> xy,
                result |-> MetersToLatLon(origin, xy[1], xy[2]),
                set |-> call.set]
    /\ UNCHANGED <<drones, engine_vars, sim_vars, mission_vars,
                   playback_vars>>

CoordinateNext ==
    \/ \E geo \in GeodeticInputs : CallSetOrigin(geo)
    \/ \E geo \in GeodeticInputs : CallLatLonToMeters(geo)
    \/ \E xy \in MetricInputs : CallMetersToLatLon(xy)

SpecCoordinates == CoordinateInit /\ [][CoordinateNext]_vars

-----------------------------------------------------------------------------
(* Properties of the synthesized trajectories, stated on the agent table   *)
(* a load or create_test_mission has filled.                               *)

\* The agents whose waypoint list has at least two waypoints.
Synthesized == {k \in 1..Len(drones) : Len(drones[k].waypoints) >= 2}

\* C14: the trajectory built from at least two waypoints, under any phase
\* configuration with hover_time >= 0, has its first sample at time 0 and
\* sample times that never decrease along the list.
C14_TimesNeverDecrease ==
    \A k \in Synthesized :
        LET trajectory == drones[k].trajectory
        IN /\ trajectory # <<>>
           /\ trajectory[1].time = 0
           /\ \A n \in 1..(Len(trajectory) - 1) :
                  trajectory[n].time <= trajectory[n + 1].time

\* C14 witness: a trajectory with interpolated samples inside an AUTO
\* segment, built with hover_time = 0.
C14_Witness ==
    /\ takeoff_config.hover_time = 0
    /\ \E k \in Synthesized :
           \E n \in 1..Len(drones[k].trajectory) :
               /\ drones[k].trajectory[n].phase = "auto"
               /\ "den" \in DOMAIN drones[k].trajectory[n]

\* The exact waypoint samples of a trajectory, in order: the AUTO samples
\* that are not interpolated.
ExactSamples(trajectory) ==
    SelectSeq(trajectory,
              LAMBDA sample : /\ sample.phase = "auto"
                              /\ "den" \notin DOMAIN sample)

\* C15, as claimed: the exact waypoint sample of the waypoint at position k
\* of the waypoint list (k >= 1, the home waypoint at position 0) carries
\* waypoint_index k.
C15_WaypointIndexIsPosition ==
    \A a \in Synthesized :
        LET exact == ExactSamples(drones[a].trajectory)
        IN /\ Len(exact) = Len(drones[a].waypoints) - 1
           /\ \A k \in 1..Len(exact) : exact[k].waypoint_index = k

\* The place of a phase in the order TAXI, TAKEOFF, HOVER, AUTO.
PhaseRank(phase) ==
    CASE phase = "taxi" -> 1
      [] phase = "takeoff" -> 2
      [] phase = "hover" -> 3
      [] phase = "auto" -> 4

SamplesIn(trajectory, phase) ==
    {n \in 1..Len(trajectory) : trajectory[n].phase = phase}

\* C16: along a synthesized trajectory the phases appear in the order TAXI
\* (exactly one sample), TAKEOFF, HOVER (exactly one sample), AUTO, and no
\* sample has an earlier phase than the sample before it.
C16_PhaseOrder ==
    \A k \in Synthesized :
        LET trajectory == drones[k].trajectory
        IN /\ \A n \in 1..Len(trajectory) :
                  trajectory[n].phase \in {"taxi", "takeoff", "hover", "auto"}
           /\ Cardinality(SamplesIn(trajectory, "taxi")) = 1
           /\ Cardinality(SamplesIn(trajectory, "hover")) = 1
           /\ SamplesIn(trajectory, "takeoff") # {}
           /\ SamplesIn(trajectory, "auto") # {}
           /\ trajectory[1].phase = "taxi"
           /\ \A n \in 1..(Len(trajectory) - 1) :
                  PhaseRank(trajectory[n].phase)
                      <= PhaseRank(trajectory[n + 1].phase)

\* C16 witness: a trajectory of the test mission, with its five AUTO legs.
C16_Witness ==
    /\ call.op = "create_test_mission"
    /\ \E k \in Synthesized :
           Cardinality(SamplesIn(drones[k].trajectory, "auto")) > 5

\* Two agents of the tables t1, t2 with the same waypoints have the same
\* trajectory.
SameWaypointsSameTrajectory(t1, t2) ==
    \A i \in 1..Len(t1), j \in 1..Len(t2) :
        t1[i].waypoints = t2[j].waypoints
            => t1[i].trajectory = t2[j].trajectory

\* C17, as claimed: in any simulator state, two generations from the same
\* waypoint list and the same phase configuration give the same samples
\* (within one table, and between a table and the one that replaces it).
C17_DeterministicAsClaimed ==
    /\ [](SameWaypointsSameTrajectory(drones, drones))
    /\ [][SameWaypointsSameTrajectory(drones, drones')]_vars

\* C17, amended: two generations from the same waypoint list, the same
\* phase configuration and the same projection origin give the same
\* samples, whichever agent they are for.
C17_Deterministic ==
    /\ [](SameWaypointsSameTrajectory(drones, drones))
    /\ [][origin' = origin => SameWaypointsSameTrajectory(drones, drones')]_vars

\* C17 witness: one load of the same mission for two agents.
C17_Witness ==
    /\ call.op = "_load_mission_files"
    /\ \E i, j \in Synthesized :
           /\ i # j
           /\ drones[i].waypoints = drones[j].waypoints

\* The files of the last load that were loaded.
LoadedFiles ==
    {i \in 1..Len(call.files) :
        call.files[i].ok /\ call.files[i].waypoints # <<>>}

\* C19, as claimed: after a load in which some mission loaded, the origin
\* is the position of the first waypoint of the first mission that loaded,
\* and every trajectory of the table was projected with that origin.
C19_OriginOfFirstLoaded ==
    (call.op = "_load_mission_files" /\ LoadedFiles # {}) =>
        LET first == call.files[MinOf(LoadedFiles)].waypoints[1]
            designated == SetOrigin(first.lat, first.lon)
        IN /\ origin = designated
           /\ \A k \in 1..Len(drones) :
                  drones[k].trajectory =
                      CalculateRealisticTrajectory(drones[k].waypoints,
                                                   drones[k].id, designated,
                                                   takeoff_config)

\* After a load the table holds the missions of this load's files and
\* nothing else; after create_test_mission it holds the four test agents,
\* each starting at the takeoff position it was given.
TableIsOfLastLoad ==
    /\ call.op = "_load_mission_files" =>
           /\ \A k \in 1..Len(drones) :
                  \E i \in LoadedFiles :
                      /\ drones[k].id = <<i>>
                      /\ drones[k].waypoints = call.files[i].waypoints
           /\ Len(drones) = Cardinality(LoadedFiles)
    /\ call.op = "create_test_mission" =>
           /\ Len(drones) = MAX_DRONES
           /\ \A k \in 1..Len(drones) :
                  /\ drones[k].id = <<k>>
                  /\ drones[k].waypoints[1].lat = call.takeoff_positions[k][1]
                  /\ drones[k].waypoints[1].lon = call.takeoff_positions[k][2]

Missions(drones_data) ==
    [k \in 1..Len(drones_data) |->
        [id |-> drones_data[k].id, waypoints |-> drones_data[k].waypoints,
         trajectory |-> drones_data[k].trajectory]]

\* C20, as claimed: after reset_simulation, and after a new load or
\* create_test_mission, no trajectory of the previous load remains in the
\* agent table.
C20_LifetimeAsClaimed ==
    /\ TableIsOfLastLoad
    /\ call.op = "reset_simulation" =>
           \A k \in 1..Len(drones) : drones[k].trajectory = <<>>

\* C20, amended: after a new load or create_test_mission no trajectory of
\* the previous load remains in the agent table; reset_simulation keeps
\* every agent with its waypoints and trajectory.
C20_Lifetime ==
    /\ []TableIsOfLastLoad
    /\ [][call'.op = "reset_simulation"
              => Missions(drones') = Missions(drones)]_vars

\* C20 witness: a load of one mission that replaces a table of two.
C20_Witness ==
    /\ call.op = "_load_mission_files"
    /\ call.before = 2
    /\ Len(drones) = 1
    /\ drones[1].trajectory # <<>>

\* A sample the synthesizer did not insert inside an AUTO segment: a taxi,
\* takeoff, hover or exact waypoint sample.
NonSynthetic(sample) == sample.phase # "auto" \/ "den" \notin DOMAIN sample

\* The waypoint_index of the non-synthetic sample closest in time to t, the
\* first one on a tie.
NearestNonSynthetic(trajectory, t) ==
    LET real == {n \in 1..Len(trajectory) : NonSynthetic(trajectory[n])}
        best == CHOOSE n \in real :
                    \A other \in real :
                        \/ Abs(trajectory[n].time - t)
                               < Abs(trajectory[other].time - t)
                        \/ /\ Abs(trajectory[n].time - t)
                                  = Abs(trajectory[other].time - t)
                           /\ n <= other
    IN trajectory[best].waypoint_index

\* C22, as claimed: the samples inserted inside an AUTO segment carry no
\* waypoint_index, and _find_nearest_waypoint_index returns the index of
\* the non-synthetic sample closest in time to the query (asked here at
\* the time of every sample), the first one on a tie.
C22_NearestFromNonSynthetic ==
    \A k \in Synthesized :
        LET trajectory == drones[k].trajectory
        IN \A n \in 1..Len(trajectory) :
               /\ ~NonSynthetic(trajectory[n])
                      => "waypoint_index" \notin DOMAIN trajectory[n]
               /\ FindNearestWaypointIndex(trajectory, trajectory[n].time)
                      = NearestNonSynthetic(trajectory, trajectory[n].time)

\* An AUTO segment of positive length ends at sample n + 1.
MovesInto(trajectory, n) ==
    /\ trajectory[n + 1].phase = "auto"
    /\ DistSqNum(trajectory[n], trajectory[n + 1]) # 0

\* Sample n + 1 is the exact waypoint sample of a zero-length segment.
ZeroLengthInto(trajectory, n) ==
    /\ trajectory[n + 1].phase = "auto"
    /\ "den" \notin DOMAIN trajectory[n + 1]
    /\ DistSqNum(trajectory[n], trajectory[n + 1]) = 0

\* C23, as claimed: a trajectory in which some AUTO segment has positive
\* length has no two samples with the same time.
C23_NoEqualTimesAsClaimed ==
    \A k \in Synthesized :
        LET trajectory == drones[k].trajectory
        IN (\E n \in 1..(Len(trajectory) - 1) : MovesInto(trajectory, n))
               => \A a, b \in 1..Len(trajectory) :
                      trajectory[a].time = trajectory[b].time => a = b

\* C23, amended: two consecutive samples have the same time exactly when
\* they are the last TAKEOFF sample and the HOVER sample with hover_time
\* = 0, or the endpoints of a zero-length AUTO segment; this happens in
\* missions that have motion elsewhere.
C23_EqualTimes ==
    \A k \in Synthesized :
        LET trajectory == drones[k].trajectory
        IN \A n \in 1..(Len(trajectory) - 1) :
               trajectory[n].time = trajectory[n + 1].time
                   <=> \/ /\ trajectory[n].phase = "takeoff"
                          /\ trajectory[n + 1].phase = "hover"
                          /\ takeoff_config.hover_time = 0
                       \/ ZeroLengthInto(trajectory, n)

\* C23 witness: with the default hover time, a mission with a segment of
\* positive length and the two endpoints of a zero-length segment at one
\* time.
C23_Witness ==
    /\ takeoff_config = TakeoffConfig
    /\ \E k \in Synthesized :
           LET trajectory == drones[k].trajectory
           IN /\ \E n \in 1..(Len(trajectory) - 1) : MovesInto(trajectory, n)
              /\ \E n \in 1..(Len(trajectory) - 1) :
                     /\ ZeroLengthInto(trajectory, n)
                     /\ trajectory[n].time = trajectory[n + 1].time

-----------------------------------------------------------------------------
(* Properties of the coordinate system.                                    *)

\* C18: before any set_origin call the origin is unset and both conversions
\* return (0, 0); after set_origin the origin is the one set last, with the
\* scale factor of its latitude, lat_lon_to_meters counts from it (north in
\* metres, east by the stored factor) and meters_to_lat_lon adds to it.
C18_UnsetOrigin ==
    /\ ~call.set =>
           /\ origin = None
           /\ call.op \in {"lat_lon_to_meters", "meters_to_lat_lon"}
                  => call.result = <<0, 0>>
    /\ call.set =>
           /\ origin # None
           /\ origin.meters_per_degree_lon
                  = CosTenThousandths(origin.origin_lat)
           /\ call.op = "set_origin" =>
                  /\ origin.origin_lat = call.args[1]
                  /\ origin.origin_lon = call.args[2]
           /\ call.op = "lat_lon_to_meters" =>
                  /\ call.result[2] = call.args[1] - origin.origin_lat
                  /\ call.result[1] =
                         ((call.args[2] - origin.origin_lon)
                              * origin.meters_per_degree_lon) \div 10000
           /\ call.op = "meters_to_lat_lon" =>
                  /\ call.result[1] = origin.origin_lat + call.args[2]
                  /\ call.result[2] =
                         origin.origin_lon
                             + (call.args[1] * 10000)
                                   \div origin.meters_per_degree_lon

\* C18 witness: a conversion of a position away from 0, 0 before any
\* set_origin call.
C18_Witness ==
    /\ ~call.set
    /\ call.op = "meters_to_lat_lon"
    /\ call.args # <<0, 0>>
    /\ call.result = <<0, 0>>

-----------------------------------------------------------------------------
(* Properties of the simulator's clock and playback.                       *)

\* C25, as claimed: in every state of the simulator the clock lies on the
\* timeline, 0 <= current_time <= max_time.
C25_ClockOnTimeline == 0 <= current_time /\ current_time <= max_time

\* C26, as claimed: while playing with max_time > 0 the clock never goes
\* back from one animation frame to the next, and the frame that would pass
\* max_time leaves the clock at max_time and is_playing false.
C26_FramesNeverGoBack ==
    [][call'.op = "update_frame" =>
          /\ current_time' >= current_time
          /\ current_time + FrameAdvance(call'.elapsed, time_scale) > max_time
                 => current_time' = max_time /\ ~is_playing']_vars

\* C27: the playing flag and the animation agree, is_playing is true
\* exactly when an animation is active; stop_simulation and
\* reset_simulation leave is_playing false; two toggle_play calls in a row
\* restore the value is_playing had before the first.
C27_FlagAndAnimationAgree ==
    /\ [](is_playing <=> animation)
    /\ [](call.op \in {"stop_simulation", "reset_simulation"} => ~is_playing)
    /\ [][call.op = "toggle_play" /\ call'.op = "toggle_play"
              => is_playing' = call.was_playing]_vars

\* C27 witness: the frame at the end of the timeline has stopped playback.
C27_Witness ==
    /\ call.op = "update_frame"
    /\ ~call.checked
    /\ current_time = max_time
    /\ ~is_playing
    /\ ~animation

\* The largest end time of the trajectories in the table, 0 without any.
LargestEndTime ==
    LET ends == {EndTime(drones[k].trajectory) :
                    k \in {n \in 1..Len(drones) : drones[n].trajectory # <<>>}}
    IN IF ends = {} THEN 0
       ELSE CHOOSE e \in ends : \A other \in ends : other <= e

\* Every agent's loiter_delays list is empty, so that the effective time of
\* a position lookup is the query time.
NoLoiterDelays ==
    \A k \in 1..Len(drones) :
        /\ drones[k].loiter_delays = <<>>
        /\ \A t \in {0, current_time, max_time} :
               EffectiveTime(drones[k].loiter_delays, t) = t

\* C28, as claimed: in every state of the simulator every agent's
\* loiter_delays list is empty, the effective time is the query time, and
\* max_time is the largest trajectory end time.
C28_NoLoiterAsClaimed == NoLoiterDelays /\ max_time = LargestEndTime

\* C28, amended: in every state of the simulator every agent's
\* loiter_delays list is empty and the effective time is the query time;
\* max_time is the largest trajectory end time while the table holds an
\* agent (a load in which no file loads empties the table and leaves
\* max_time as it was).
C28_NoLoiter == NoLoiterDelays /\ (drones # <<>> => max_time = LargestEndTime)

\* C28 witness: a frame whose check raised a warning, on a timeline of 1 s,
\* has left the lists empty and max_time at the end of the longest flight.
C28_Witness ==
    /\ call.op = "update_frame"
    /\ call.checked
    /\ call.shown # <<>>
    /\ drones # <<>>
    /\ max_time = 10
    /\ max_time = LargestEndTime
    /\ NoLoiterDelays

\* An agent's entry without its loiter_delays.
Kept(drones_data) ==
    [k \in 1..Len(drones_data) |->
        [drones_data[k] EXCEPT !.loiter_delays = <<>>]]

\* C29: reset_simulation leaves current_time = 0, last_collision_check = 0,
\* is_playing false, every agent's loiter_delays empty and modified_missions
\* empty, and leaves each agent's waypoints (and trajectory), the safety
\* configuration, the time scale and max_time as they were.
C29_ResetEffects ==
    [][call'.op = "reset_simulation" =>
          /\ current_time' = 0
          /\ last_collision_check' = 0
          /\ ~is_playing'
          /\ \A k \in 1..Len(drones') : drones'[k].loiter_delays = <<>>
          /\ modified_missions' = <<>>
          /\ Kept(drones') = Kept(drones)
          /\ \A k \in 1..Len(drones) :
                 drones'[k].waypoints = drones[k].waypoints
          /\ safety_config' = safety_config
          /\ time_scale' = time_scale
          /\ max_time' = max_time]_vars

\* C29 witness: a reset during playback at double speed, the clock late,
\* a modified mission stored and the safety distance moved.
C29_Witness ==
    /\ call.op = "reset_simulation"
    /\ call.was_playing
    /\ call.time > 0
    /\ call.missions > 0
    /\ time_scale # DEFAULT_TIME_SCALE
    /\ safety_config # SafetyConfig
    /\ max_time > 0
    /\ drones # <<>>

-----------------------------------------------------------------------------
(* Properties of analyze_collisions, stated on the step it takes.          *)

\* The conflicts of the list cs that name the agent id as waiting_drone.
Naming(cs, id) == {c \in 1..Len(cs) : cs[c].waiting_drone = id}

\* C30: analyze_collisions keeps every modified mission that was there, in
\* place and unchanged, and adds one for each waiting_drone of the new
\* conflict list that had none: built from the first conflict of the list
\* that names the agent, which is of the first pair in sorted order and
\* the earliest of that pair.  No agent has two.
C30_ModifiedMissions ==
    [][call'.op = "analyze_collisions" =>
          LET cs == trajectory_conflicts'
              old == modified_missions
              new == modified_missions'
          IN /\ Len(new) >= Len(old)
             /\ \A k \in 1..Len(old) : new[k] = old[k]
             /\ \A k, n \in 1..Len(new) : new[k].id = new[n].id => k = n
             /\ \A c \in 1..Len(cs) : HasKey(new, cs[c].waiting_drone)
             /\ \A k \in (Len(old) + 1)..Len(new) :
                    /\ Naming(cs, new[k].id) # {}
                    /\ LET first == cs[MinOf(Naming(cs, new[k].id))]
                       IN /\ new[k].conflicts = <<first>>
                          /\ \A c \in Naming(cs, new[k].id) :
                                 \/ StrLess(first.priority_drone,
                                            cs[c].priority_drone)
                                 \/ /\ first.priority_drone
                                           = cs[c].priority_drone
                                    /\ first.time <= cs[c].time]_vars

\* C30 witness: an analysis run again after a safety-distance change: it
\* found a modified mission of the earlier run, added one, and has an
\* agent that waits for two others.
C30_Witness ==
    /\ call.op = "analyze_collisions"
    /\ call.before > 0
    /\ Len(modified_missions) > call.before
    /\ \E a, b \in 1..Len(trajectory_conflicts) :
           /\ trajectory_conflicts[a].waiting_drone
                  = trajectory_conflicts[b].waiting_drone
           /\ trajectory_conflicts[a].priority_drone
                  # trajectory_conflicts[b].priority_drone

-----------------------------------------------------------------------------
(* Properties of the phase shown for a position.                           *)

\* The last sample of the trajectory at or before the time t.
LastSampleBefore(trajectory, t) ==
    trajectory[CHOOSE n \in 1..Len(trajectory) :
                   /\ trajectory[n].time <= t
                   /\ \A later \in (n + 1)..Len(trajectory) :
                          trajectory[later].time > t]

\* The time t lies strictly between two consecutive samples.
StrictlyBetween(trajectory, t) ==
    \E n \in 1..(Len(trajectory) - 1) :
        trajectory[n].time < t /\ t < trajectory[n + 1].time

\* C24, as claimed: the position _get_drone_position_at_time returns for
\* an agent without loiter delays, at a time strictly between two
\* consecutive samples, shows the phase of the last sample at or before
\* that time.
C24_PhaseOfEarlierSample ==
    (/\ call.op = "_get_drone_position_at_time"
     /\ drones[1].loiter_delays = <<>>
     /\ StrictlyBetween(drones[1].trajectory, call.time))
        => PhaseOf(call.result)
               = LastSampleBefore(drones[1].trajectory, call.time).phase

-----------------------------------------------------------------------------
(* Properties of empty trajectories.                                       *)

\* The agents that have a trajectory.
WithTrajectory(drones_data) ==
    SelectSeq(drones_data, LAMBDA drone : drone.trajectory # <<>>)

\* The conflict names an agent without a trajectory.
NamesEmpty(conflict) ==
    \E k \in 1..Len(drones) :
        /\ drones[k].trajectory = <<>>
        /\ drones[k].id \in {conflict.drone1, conflict.drone2}

\* C21: _interpolate_position on an empty trajectory returns None; the
\* conflicts analyze_trajectory_conflicts leaves name no agent with an
\* empty trajectory and are those of the analysis of the agents that have
\* a trajectory; a list of fewer than two waypoints gives the empty
\* trajectory.
C21_EmptyTrajectories ==
    /\ (call.op = "_interpolate_position"
            /\ drones[call.drone].trajectory = <<>>)
           => call.result = None
    /\ call.op = "analyze_trajectory_conflicts"
           => /\ \A k \in 1..Len(trajectory_conflicts) :
                     ~NamesEmpty(trajectory_conflicts[k])
              /\ trajectory_conflicts
                     = AnalyzeTrajectoryConflicts(WithTrajectory(drones),
                                                  safety_config)
    /\ \A waypoints \in {<<>>, MissionHome} :
           CalculateRealisticTrajectory(waypoints, Drone_1, origin,
                                        takeoff_config) = <<>>

\* _interpolate_position has answered None for an agent without samples
\* whose two neighbours were found in conflict by the analysis before.
C21_Witness ==
    /\ call.op = "_interpolate_position"
    /\ drones[call.drone].trajectory = <<>>
    /\ call.result = None
    /\ Len(drones) = 3
    /\ trajectory_conflicts # <<>>

====
